---- MODULE Spec2Model ----
(***************************************************************************)
(* A model of the `project` CLI: the path registry (~/projects), the       *)
(* lifecycle commands (migrate, remove), the archive engine (archive,      *)
(* archives, archive-remove, restore), discovery (scan, list) and the      *)
(* manifest store (set, get), over an explicit model of the filesystem.    *)
(*                                                                         *)
(* A file name is a sequence of tokens; the tokens "_", "." and "/" stand  *)
(* for those characters and every other token for a run of characters free *)
(* of them, so that splitting at an underscore, testing a leading dot and  *)
(* stripping an extension are computed on the name as the code computes    *)
(* them.  A path is a sequence of names; the name RootDir in front makes   *)
(* it absolute.                                                            *)
(***************************************************************************)
EXTENDS Integers, Sequences, FiniteSets, TLC

VARIABLES
    fs,      \* the filesystem: real absolute path -> node
    clock,   \* the local time in seconds (chrono::Local::now)
    last,    \* the command that changed the filesystem last: arguments and result
    pre,     \* the filesystem as it was when that command started
    out,     \* what a reading command (archives, list, scan, get) returned since
    steps,   \* the number of commands run so far
    archived \* archive name -> the project tree as it was when it was archived

vars == <<fs, clock, last, pre, out, steps, archived>>

-----------------------------------------------------------------------------
(* Bounds of the model. *)

MaxSteps == 2
MaxClock == 1
MaxFollow == 3
MaxSets == 1

-----------------------------------------------------------------------------
(* Names and well-known paths. *)

RootDir == <<"/">>
CurDir == <<".">>
DotDot == <<".", ".">>

nHome == <<"home">>
nProjects == <<"projects">>
nDotProj == <<".", "proj">>
nArchives == <<"archives">>
nManifest == <<"project", ".", "json">>
nWork == <<"work">>
nExt == <<"ext">>

HomeDir == <<RootDir, nHome>>
\* projects_dir(): ~/projects
ProjectsDir == HomeDir \o <<nProjects>>
\* get_archives_dir(): ~/.proj/archives
ArchivesDir == HomeDir \o <<nDotProj, nArchives>>
\* the project-root scoped registry archive_project looks at first: ~/.proj/projects
ScopedDir == HomeDir \o <<nDotProj, nProjects>>
\* std::env::current_dir() of the process
Cwd == <<RootDir, nWork>>
\* the manifest of a project, relative to its root: .proj/project.json
ManifestRel == <<nDotProj, nManifest>>

-----------------------------------------------------------------------------
(* Sequence helpers. *)

IsPrefix(p, q) == Len(p) <= Len(q) /\ SubSeq(q, 1, Len(p)) = p

Front(s) == SubSeq(s, 1, Len(s) - 1)

Last(s) == s[Len(s)]

DropFirst(s, n) == SubSeq(s, n + 1, Len(s))

Range(s) == {s[i] : i \in 1..Len(s)}

Max(a, b) == IF a >= b THEN a ELSE b

RECURSIVE SetToSeq(_)
SetToSeq(S) ==
    IF S = {} THEN <<>>
    ELSE LET x == CHOOSE y \in S : TRUE IN <<x>> \o SetToSeq(S \ {x})

-----------------------------------------------------------------------------
(* Filesystem nodes.  Every node carries every field so that nodes compare. *)


DirNode == [k |-> "dir", data |-> <<>>, json |-> <<>>, zip |-> <<>>, target |-> <<>>]

FileNode(c) == [k |-> "file", data |-> c.data, json |-> c.json, zip |-> c.zip, target |-> <<>>]

LinkNode(t) == [k |-> "link", data |-> <<>>, json |-> <<>>, zip |-> <<>>, target |-> t]


Raw(d) == [data |-> d, json |-> <<>>, zip |-> <<>>]

\* std::path::PathBuf::join
Join(a, b) == IF b # <<>> /\ Head(b) = RootDir THEN b ELSE a \o b

\* std::path::Path::starts_with: component-wise, no symlink is resolved
StartsWith(p, base) == IsPrefix(base, p)

\* a real (canonical) path as an absolute path
AbsOf(real) == <<RootDir>> \o real

-----------------------------------------------------------------------------
(* Path resolution as the kernel does it: symlinks are followed, at most     *)
(* MaxFollow of them.  `via` counts the leading components of `rest` that   *)
(* come from a symlink target, so that a dangling link can be told from a   *)
(* missing entry.                                                           *)

RECURSIVE Walk(_, _, _, _, _)
Walk(f, cur, rest, fuel, via) ==
    \* fuel and via are numbers the walk holds: they are evaluated at each component
    IF fuel >= 0 /\ via >= 0 /\ rest = <<>>
      THEN [ok |-> TRUE, err |-> "", path |-> cur, missing |-> <<>>, dangling |-> FALSE]
    ELSE
      LET c == Head(rest)
          t == Tail(rest)
          v == Max(via - 1, 0)
          nxt == Append(cur, c)
      IN  IF c # RootDir /\ c # CurDir /\ c # DotDot /\ nxt \in DOMAIN f /\ f[nxt].k = "dir"
            THEN Walk(f, nxt, t, fuel, v)
          ELSE IF c = RootDir THEN Walk(f, <<>>, t, fuel, v)
          ELSE IF c = CurDir THEN Walk(f, cur, t, fuel, v)
          ELSE IF c = DotDot THEN Walk(f, IF cur = <<>> THEN cur ELSE Front(cur), t, fuel, v)
          ELSE IF nxt \notin DOMAIN f
            THEN [ok |-> FALSE, err |-> "ENOENT", path |-> cur, missing |-> rest,
                  dangling |-> via > 0]
          ELSE IF f[nxt].k = "file"
            THEN IF t = <<>>
                   THEN [ok |-> TRUE, err |-> "", path |-> nxt, missing |-> <<>>,
                         dangling |-> FALSE]
                   ELSE [ok |-> FALSE, err |-> "ENOTDIR", path |-> nxt, missing |-> t,
                         dangling |-> FALSE]
          ELSE IF fuel = 0
            THEN [ok |-> FALSE, err |-> "ELOOP", path |-> nxt, missing |-> t,
                  dangling |-> FALSE]
          ELSE Walk(f, cur, f[nxt].target \o t, fuel - 1, Len(f[nxt].target) + v)

\* stat(p): the node p resolves to, symlinks followed
Stat(f, p) == Walk(f, <<>>, Join(Cwd, p), MaxFollow, 0)

\* lstat(p): the directory entry p names, its last component not followed
LStat(f, p) ==
    LET a == Join(Cwd, p)
    IN  IF Len(a) <= 1 THEN [ok |-> TRUE, key |-> <<>>]
        ELSE LET d == Walk(f, <<>>, Front(a), MaxFollow, 0)
             IN  IF d.ok /\ (d.path = <<>> \/ f[d.path].k = "dir")
                      /\ Last(a) \notin {CurDir, DotDot, RootDir}
                   THEN [ok |-> TRUE, key |-> Append(d.path, Last(a))]
                   ELSE [ok |-> FALSE, key |-> <<>>]

KindAt(f, real) == IF real = <<>> THEN "dir" ELSE f[real].k

\* Path::exists, Path::is_file, Path::is_dir: all follow symlinks
Exists(f, p) == Stat(f, p).ok

IsFile(f, p) == LET s == Stat(f, p) IN s.ok /\ KindAt(f, s.path) = "file"

IsDir(f, p) == LET s == Stat(f, p) IN s.ok /\ KindAt(f, s.path) = "dir"

\* Path::is_symlink: the entry itself
IsSymlink(f, p) ==
    LET l == LStat(f, p) IN l.ok /\ l.key \in DOMAIN f /\ f[l.key].k = "link"

\* the entry itself is present (a dangling symlink counts)
LExists(f, p) == LET l == LStat(f, p) IN l.ok /\ (l.key = <<>> \/ l.key \in DOMAIN f)

\* the real paths at and below a real path
Subtree(f, real) == {q \in DOMAIN f : IsPrefix(real, q)}

Restrict(f, S) == [q \in S |-> f[q]]

Put(f, key, node) == [q \in DOMAIN f \cup {key} |-> IF q = key THEN node ELSE f[q]]

\* a tree placed at a real path of a filesystem
PlaceTree(f, root, tree) ==
    LET new == {root \o q : q \in DOMAIN tree}
    IN  [q \in DOMAIN f \cup new |-> IF q \in new THEN tree[DropFirst(q, Len(root))] ELSE f[q]]

\* the names in a directory (fs::read_dir); the empty set when it cannot be read
ReadDir(f, p) ==
    LET s == Stat(f, p)
    IN  IF s.ok /\ KindAt(f, s.path) = "dir"
          THEN {Last(q) : q \in {r \in DOMAIN f : Len(r) = Len(s.path) + 1 /\ IsPrefix(s.path, r)}}
          ELSE {}

-----------------------------------------------------------------------------
(* The filesystem calls the commands make.  Each returns [ok, fs]: whether  *)
(* the call succeeded and the filesystem after it (unchanged on failure).   *)

IsNormal(c) == c \notin {RootDir, CurDir, DotDot}

\* the directories cur/m1, cur/m1/m2, ... added to f
RECURSIVE MkDirs(_, _, _)
MkDirs(f, cur, missing) ==
    IF missing = <<>> THEN f
    ELSE MkDirs(Put(f, Append(cur, Head(missing)), DirNode), Append(cur, Head(missing)),
                Tail(missing))

\* fs::create_dir_all
CreateDirAll(f, p) ==
    LET s == Stat(f, p)
    IN  IF s.ok THEN [ok |-> KindAt(f, s.path) = "dir", fs |-> f]
        ELSE IF s.err = "ENOENT" /\ ~s.dangling /\ \A i \in 1..Len(s.missing) : IsNormal(s.missing[i])
          THEN [ok |-> TRUE, fs |-> MkDirs(f, s.path, s.missing)]
        ELSE [ok |-> FALSE, fs |-> f]

\* fs::remove_dir_all: a symlink is removed itself, never followed
RemoveDirAll(f, p) ==
    LET l == LStat(f, p)
    IN  IF ~l.ok \/ l.key \notin DOMAIN f THEN [ok |-> FALSE, fs |-> f]
        ELSE IF f[l.key].k = "link" THEN [ok |-> TRUE, fs |-> Restrict(f, DOMAIN f \ {l.key})]
        ELSE IF f[l.key].k = "dir"
          THEN [ok |-> TRUE, fs |-> Restrict(f, DOMAIN f \ Subtree(f, l.key))]
        ELSE [ok |-> FALSE, fs |-> f]

\* fs::remove_file: unlinks a file or a symlink, fails on a directory
RemoveFile(f, p) ==
    LET l == LStat(f, p)
    IN  IF l.ok /\ l.key \in DOMAIN f /\ f[l.key].k # "dir"
          THEN [ok |-> TRUE, fs |-> Restrict(f, DOMAIN f \ {l.key})]
          ELSE [ok |-> FALSE, fs |-> f]

\* std::os::unix::fs::symlink(target, link): fails when the entry is present
Symlink(f, target, linkp) ==
    LET l == LStat(f, linkp)
    IN  IF l.ok /\ l.key # <<>> /\ l.key \notin DOMAIN f
          THEN [ok |-> TRUE, fs |-> Put(f, l.key, LinkNode(target))]
          ELSE [ok |-> FALSE, fs |-> f]

\* File::create followed by writing the content: creates or truncates
WriteFile(f, p, c) ==
    LET s == Stat(f, p)
    IN  IF s.ok
          THEN IF KindAt(f, s.path) = "file" THEN [ok |-> TRUE, fs |-> Put(f, s.path, FileNode(c))]
               ELSE [ok |-> FALSE, fs |-> f]
        ELSE IF s.err = "ENOENT" /\ Len(s.missing) = 1 /\ IsNormal(s.missing[1])
          THEN [ok |-> TRUE, fs |-> Put(f, Append(s.path, s.missing[1]), FileNode(c))]
        ELSE [ok |-> FALSE, fs |-> f]

\* fs::rename of a directory tree onto a path
Rename(f, src, dst) ==
    LET ls == LStat(f, src)
        ld == LStat(f, dst)
    IN  IF ~ls.ok \/ ~ld.ok \/ ls.key \notin DOMAIN f \/ ld.key = <<>> THEN [ok |-> FALSE, fs |-> f]
        ELSE IF ls.key = ld.key THEN [ok |-> TRUE, fs |-> f]
        ELSE IF IsPrefix(ls.key, ld.key) THEN [ok |-> FALSE, fs |-> f]
        ELSE IF ld.key \in DOMAIN f
                /\ ~(f[ls.key].k = "dir" /\ f[ld.key].k = "dir" /\ Subtree(f, ld.key) = {ld.key})
                /\ ~(f[ls.key].k # "dir" /\ f[ld.key].k # "dir")
          THEN [ok |-> FALSE, fs |-> f]
        ELSE
          LET moved == Subtree(f, ls.key)
              keep == DOMAIN f \ (moved \cup {ld.key})
              to(q) == ld.key \o DropFirst(q, Len(ls.key))
          IN  [ok |-> TRUE,
               fs |-> [q \in keep \cup {to(r) : r \in moved} |->
                         IF q \in keep THEN f[q]
                         ELSE f[ls.key \o DropFirst(q, Len(ld.key))]]]

\* fs::canonicalize
Canonicalize(f, p) == LET s == Stat(f, p) IN [ok |-> s.ok, path |-> AbsOf(s.path)]

-----------------------------------------------------------------------------
(* The path registry. *)

\* find_project_path: the registry entry of that name whose target holds a manifest
find_project_path(f, name) ==
    LET path == ProjectsDir \o <<name>>
    IN  IF name \in ReadDir(f, ProjectsDir) /\ IsFile(f, path \o ManifestRel)
          THEN [some |-> TRUE, path |-> path]
          ELSE [some |-> FALSE, path |-> <<>>]

-----------------------------------------------------------------------------
(* The archive engine. *)

\* Local::now().format("%Y%m%d_%H%M%S"): the date, an underscore, the time of day
Timestamp(clk) == <<"20260101", "_", ToString(clk)>>

\* format!("{}_{}.zip", project_name, timestamp) without the extension
ArchiveNameOf(name, clk) == name \o <<"_">> \o Timestamp(clk)

\* format!("{}.zip", name)
ZipFile(aname) == aname \o <<".", "zip">>

\* the loop over walkdir::WalkDir::new(real_path): one entry per path below the
\* root for which is_file() holds (a symlink to a file counts, a directory and a
\* symlink to a directory do not), named by its path relative to the root
ZipEntriesOf(f, real_path) ==
    LET root == Stat(f, real_path).path
        paths == IF KindAt(f, root) = "dir" THEN Subtree(f, root) \ {root} ELSE {root}
        files == {q \in paths : IsFile(f, AbsOf(q))}
        entry(q) == LET n == f[Stat(f, AbsOf(q)).path]
                    IN  [name |-> DropFirst(q, Len(root)), slash |-> FALSE,
                         data |-> n.data, json |-> n.json]
    IN  SetToSeq({entry(q) : q \in files})

\* the deletion of the live project once the archive is finished
ArchiveCleanup(f, name, real_path) ==
    LET r == IF Exists(f, real_path) THEN RemoveDirAll(f, real_path) ELSE [ok |-> TRUE, fs |-> f]
        projects_link == ProjectsDir \o <<name>>
    IN  IF ~r.ok THEN [res |-> "IoFailure", fs |-> r.fs]
        ELSE [res |-> "Ok",
              fs |-> IF Exists(r.fs, projects_link) THEN RemoveFile(r.fs, projects_link).fs
                     ELSE r.fs]

\* the path archive_project archives: ~/.proj/projects/<name>, else
\* ~/projects/<name>, else <cwd>/<name>, whichever exists first
ArchiveSource(f, name) ==
    LET project_dir == ScopedDir \o <<name>>
        alt_path == ProjectsDir \o <<name>>
        cwd_path == Cwd \o <<name>>
    IN  IF Exists(f, project_dir) THEN project_dir
        ELSE IF Exists(f, alt_path) THEN alt_path
        ELSE cwd_path

\* what can go wrong while the archive is written: a file of the project
\* cannot be read, or zip.finish() fails
Faults == {"none", "read", "finish"}

\* the archive written as if nothing could fail
ZipWriteUnchecked(f, archive_path, real_path, fault) ==
    WriteFile(f, archive_path, [data |-> <<>>, json |-> <<>>, zip |-> ZipEntriesOf(f, real_path)])

\* File::create, the walkdir loop and zip.finish(): [ok, fs].  When a file
\* cannot be read the loop returns at it, after start_file, and the writer is
\* closed as it is dropped; when finish fails the file is left incomplete.
ZipWrite(f, archive_path, real_path, fault) ==
    LET entries == ZipEntriesOf(f, real_path)
        created == WriteFile(f, archive_path, Raw(<<>>))
        unread == [Head(entries) EXCEPT !.data = <<>>, !.json = <<>>]
    IN  IF ~created.ok THEN created
        ELSE IF fault = "read" /\ entries # <<>>
          THEN [ok |-> FALSE,
                fs |-> WriteFile(f, archive_path, [data |-> <<>>, json |-> <<>>, zip |-> <<unread>>]).fs]
        ELSE IF fault = "finish"
          THEN [ok |-> FALSE, fs |-> WriteFile(f, archive_path, Raw(<<"incomplete">>)).fs]
        ELSE WriteFile(f, archive_path, [data |-> <<>>, json |-> <<>>, zip |-> entries])

\* archive_project
archive_project(f, name, clk, fault) ==
    LET real_path == ArchiveSource(f, name)
        archive_path == ArchivesDir \o <<ZipFile(ArchiveNameOf(name, clk))>>
        d == CreateDirAll(f, ArchivesDir)
        w == ZipWrite(d.fs, archive_path, real_path, fault)
    IN  IF ~Exists(f, real_path) THEN [res |-> "NotFound", fs |-> f]
        ELSE IF ~d.ok THEN [res |-> "IoFailure", fs |-> f]
        ELSE IF ~w.ok THEN [res |-> "IoFailure", fs |-> w.fs]
        ELSE ArchiveCleanup(w.fs, name, real_path)

\* Path::extension() == "zip": the text after the last dot of the name, when that
\* dot is not the first character
HasZipExtension(n) ==
    LET dots == {i \in 2..Len(n) : n[i] = "."}
    IN  dots # {} /\ LET i == CHOOSE j \in dots : \A k \in dots : k <= j
                     IN  SubSeq(n, i + 1, Len(n)) = <<"zip">>

\* the name printed with its extension left on
TrimNothing(n) == n

\* str::trim_end_matches(".zip"): strips every trailing ".zip"
RECURSIVE TrimZip(_)
TrimZip(n) ==
    IF Len(n) >= 2 /\ SubSeq(n, Len(n) - 1, Len(n)) = <<".", "zip">> THEN TrimZip(SubSeq(n, 1, Len(n) - 2))
    ELSE n

\* list_archives: the names printed; the empty set prints "No archives found."
list_archives(f) ==
    IF ~Exists(f, ArchivesDir) THEN {}
    ELSE {TrimZip(n) : n \in {m \in ReadDir(f, ArchivesDir) : HasZipExtension(m)}}

\* success reported, nothing removed
RemoveNoArchive(f, name) == [res |-> "Ok", fs |-> f]

\* remove_archive
remove_archive(f, name) ==
    LET archive_path == ArchivesDir \o <<ZipFile(name)>>
        r == RemoveFile(f, archive_path)
    IN  IF ~Exists(f, archive_path) THEN [res |-> "NotFound", fs |-> f]
        ELSE IF ~r.ok THEN [res |-> "IoFailure", fs |-> f]
        ELSE [res |-> "Ok", fs |-> r.fs]

\* the text before the last underscore
OriginalNameToLastUnderscore(aname) ==
    LET us == {i \in 1..Len(aname) : aname[i] = "_"}
    IN  IF us = {} THEN aname
        ELSE SubSeq(aname, 1, (CHOOSE i \in us : \A j \in us : i >= j) - 1)

\* archive_name.splitn(2, '_').next(): the text before the first underscore
OriginalName(aname) ==
    LET us == {i \in 1..Len(aname) : aname[i] = "_"}
    IN  IF us = {} THEN aname
        ELSE SubSeq(aname, 1, (CHOOSE i \in us : \A j \in us : i <= j) - 1)

\* Path::join of one name; joining the empty name leaves the path as it is
JoinName(p, n) == IF n = <<>> THEN p ELSE Append(p, n)

\* the entry name joined as it is stored, `..` and root components included
UnmangledName(ename) == ename

\* ZipFile::mangled_name: only the normal components of the entry name are kept
mangled_name(ename) == SelectSeq(ename, IsNormal)

\* one turn of the extraction loop of restore_archive
ExtractEntry(f, dest_path, e) ==
    LET outpath == dest_path \o mangled_name(e.name)
        d == IF e.slash THEN CreateDirAll(f, outpath)
             ELSE IF Len(outpath) > 1 THEN CreateDirAll(f, Front(outpath))
             ELSE [ok |-> TRUE, fs |-> f]
    IN  IF e.slash \/ ~d.ok THEN d
        ELSE WriteFile(d.fs, outpath, [data |-> e.data, json |-> e.json, zip |-> <<>>])

\* the extraction loop: stops at the first entry that fails
RECURSIVE ExtractAll(_, _, _)
ExtractAll(f, dest_path, entries) ==
    IF entries = <<>> THEN [ok |-> TRUE, fs |-> f]
    ELSE LET r == ExtractEntry(f, dest_path, Head(entries))
         IN  IF ~r.ok THEN r ELSE ExtractAll(r.fs, dest_path, Tail(entries))

\* the registry symlink restore_archive makes for a destination outside ~/projects
RestoreLink(f, dest_path, original_name) ==
    LET symlink_path == JoinName(ProjectsDir, original_name)
        r == IF Exists(f, symlink_path) THEN RemoveFile(f, symlink_path) ELSE [ok |-> TRUE, fs |-> f]
        l == Symlink(r.fs, dest_path, symlink_path)
    IN  IF StartsWith(dest_path, ProjectsDir) THEN [ok |-> TRUE, fs |-> f]
        ELSE IF ~r.ok THEN r
        ELSE l

\* where restore_archive puts the project
RestoreDest(archive_name, destination) ==
    IF destination.some THEN JoinName(destination.path, OriginalName(archive_name))
    ELSE JoinName(ProjectsDir, OriginalName(archive_name))

\* the existence check left out
RestoreDestNeverTaken(f, dest_path) == FALSE

\* dest_path.exists(): the destination is taken
RestoreDestTaken(f, dest_path) == Exists(f, dest_path)

\* restore_archive
restore_archive(f, archive_name, destination) ==
    LET archive_path == ArchivesDir \o <<ZipFile(archive_name)>>
        original_name == OriginalName(archive_name)
        dest_path == RestoreDest(archive_name, destination)
        d == CreateDirAll(f, dest_path)
        a == Stat(d.fs, archive_path)
        x == ExtractAll(d.fs, dest_path, f[a.path].zip)
        l == RestoreLink(x.fs, dest_path, original_name)
    IN  IF ~Exists(f, archive_path) THEN [res |-> "NotFound", fs |-> f]
        ELSE IF RestoreDestTaken(f, dest_path) THEN [res |-> "Conflict", fs |-> f]
        ELSE IF ~d.ok THEN [res |-> "IoFailure", fs |-> f]
        ELSE IF KindAt(f, a.path) # "file" \/ f[a.path].data # <<>>
          THEN [res |-> "IoFailure", fs |-> d.fs]
        ELSE IF ~x.ok THEN [res |-> "IoFailure", fs |-> x.fs]
        ELSE IF ~l.ok THEN [res |-> "IoFailure", fs |-> l.fs]
        ELSE [res |-> "Ok", fs |-> l.fs]

-----------------------------------------------------------------------------
(* Lifecycle operations. *)

None == [some |-> FALSE, path |-> <<>>]

Some(p) == [some |-> TRUE, path |-> p]

\* the project migrate_project moves: the registry entry, else <cwd>/<name>
MigrateSource(f, name) ==
    LET found == find_project_path(f, name)
        cwd_path == Cwd \o <<name>>
    IN  IF found.some THEN found
        ELSE IF Exists(f, cwd_path) THEN Some(cwd_path)
        ELSE None

\* a default destination in the working directory
MigrateDestDirInCwd(destination) == IF destination.some THEN destination.path ELSE Cwd

\* destination.unwrap_or(default_dest)
MigrateDestDir(destination) == IF destination.some THEN destination.path ELSE ProjectsDir

\* destination.join(name)
MigrateDest(name, destination) == MigrateDestDir(destination) \o <<name>>

\* the existence check left out
MigrateDestNeverTaken(f, dest_path) == FALSE

\* dest_path.exists(): the destination already holds an entry of that name
MigrateDestTaken(f, dest_path) == Exists(f, dest_path)

\* migrate_project
migrate_project(f, name, destination) ==
    LET dest_dir == MigrateDestDir(destination)
        dest_path == MigrateDest(name, destination)
        project_path == MigrateSource(f, name)
        real_path == Canonicalize(f, project_path.path)
        d == CreateDirAll(f, dest_dir)
        r == Rename(d.fs, real_path.path, dest_path)
        u == IF Exists(r.fs, project_path.path) /\ IsSymlink(r.fs, project_path.path)
               THEN RemoveFile(r.fs, project_path.path)
               ELSE [ok |-> TRUE, fs |-> r.fs]
    IN  IF ~project_path.some THEN [res |-> "NotFound", fs |-> f]
        ELSE IF ~real_path.ok THEN [res |-> "IoFailure", fs |-> f]
        ELSE IF MigrateDestTaken(f, dest_path) THEN [res |-> "Conflict", fs |-> f]
        ELSE IF ~d.ok THEN [res |-> "IoFailure", fs |-> f]
        ELSE IF ~r.ok THEN [res |-> "IoFailure", fs |-> d.fs]
        ELSE IF ~u.ok THEN [res |-> "IoFailure", fs |-> r.fs]
        ELSE [res |-> "Ok", fs |-> u.fs]

IsSpace(ch) == ch \in {" ", "\n", "\t"}

\* str::trim
RECURSIVE Trim(_)
Trim(s) ==
    IF s = <<>> THEN s
    ELSE IF IsSpace(Head(s)) THEN Trim(Tail(s))
    ELSE IF IsSpace(Last(s)) THEN Trim(Front(s))
    ELSE s

\* char::to_lowercase on the letters answers and file names are made of
LowerChar(ch) ==
    CASE ch = "Y" -> "y"
      [] ch = "E" -> "e"
      [] ch = "S" -> "s"
      [] ch = "N" -> "n"
      [] ch = "V" -> "v"
      [] ch = "R" -> "r"
      [] ch = "I" -> "i"
      [] ch = "O" -> "o"
      [] OTHER -> ch

\* str::to_lowercase
ToLower(s) == [i \in 1..Len(s) |-> LowerChar(s[i])]

\* an answer taken as yes as soon as it starts with y
AffirmativeByFirstLetter(input) ==
    LET t == ToLower(Trim(input)) IN t # <<>> /\ Head(t) = "y"

\* matches!(input.trim().to_lowercase().as_str(), "y" | "yes")
Affirmative(input) == ToLower(Trim(input)) \in {<<"y">>, <<"y", "e", "s">>}

\* the deletion remove_project performs once it is confirmed
RemoveConfirmed(f, name, project_path) ==
    LET symlink_path == ProjectsDir \o <<name>>
        r == RemoveDirAll(f, project_path)
        u == RemoveFile(r.fs, symlink_path)
        v == IF u.ok THEN u ELSE RemoveDirAll(r.fs, symlink_path)
    IN  IF ~r.ok THEN [res |-> "IoFailure", fs |-> f]
        ELSE IF StartsWith(project_path, ProjectsDir) THEN [res |-> "Ok", fs |-> r.fs]
        ELSE IF ~Exists(r.fs, symlink_path) THEN [res |-> "Ok", fs |-> r.fs]
        ELSE IF ~v.ok THEN [res |-> "IoFailure", fs |-> r.fs]
        ELSE [res |-> "Ok", fs |-> v.fs]

\* remove_project
remove_project(f, name, force, input) ==
    LET project_path == find_project_path(f, name)
    IN  IF ~project_path.some THEN [res |-> "NotFound", fs |-> f]
        ELSE IF ~force /\ ~Affirmative(input) THEN [res |-> "Ok", fs |-> f]
        ELSE RemoveConfirmed(f, name, project_path.path)

-----------------------------------------------------------------------------
(* Discovery: the walks of `list` and `scan`.  Both thread one accumulator,  *)
(* [seen, found], through the walk of the working directory and then the     *)
(* walk of ~/projects; directory entries are taken in one fixed order.       *)

\* ensure_projects_dir: ~/projects is made when it is missing; a failure is
\* dropped by the callers' .ok()
ensure_projects_dir(f) ==
    IF Exists(f, ProjectsDir) THEN f ELSE CreateDirAll(f, ProjectsDir).fs

NoneFound == [seen |-> {}, found |-> <<>>]

\* str::starts_with('.') on a file name
IsHidden(name) == name # <<>> /\ Head(name) = "."

\* every path reported, seen before or not
DiscoverUnseen(acc, real_path, shown) ==
    [seen |-> acc.seen \cup {real_path}, found |-> Append(acc.found, shown)]

\* seen.insert(real_path) and, when it was not there, the push or the print
Discover(acc, real_path, shown) ==
    IF real_path \in acc.seen THEN acc
    ELSE [seen |-> acc.seen \cup {real_path}, found |-> Append(acc.found, shown)]

\* list_projects::visit
RECURSIVE ListVisit(_, _, _, _)
RECURSIVE ListVisitEntries(_, _, _, _, _)
ListVisit(f, dir, recursive, acc) ==
    ListVisitEntries(f, dir, SetToSeq(ReadDir(f, dir)), recursive, acc)

ListVisitEntries(f, dir, entries, recursive, acc) ==
    \* seen is a value held by the loop: it is evaluated at each entry
    IF acc.seen = acc.seen /\ entries = <<>> THEN acc
    ELSE
      LET path == Append(dir, Head(entries))
          real_path == Canonicalize(f, path)
          next == IF ~IsDir(f, path) THEN acc
                  ELSE IF IsHidden(Head(entries)) THEN acc
                  ELSE IF IsFile(f, path \o ManifestRel)
                    THEN IF real_path.ok THEN Discover(acc, real_path.path, real_path.path)
                         ELSE acc
                  ELSE IF recursive THEN ListVisit(f, path, recursive, acc)
                  ELSE acc
      IN  ListVisitEntries(f, dir, Tail(entries), recursive, next)

\* all_projects of list_projects: the walk of "." and then of ~/projects
list_projects(f) ==
    ListVisit(f, ProjectsDir, TRUE, ListVisit(f, <<CurDir>>, TRUE, NoneFound)).found

\* scan_for_proj::visit
RECURSIVE ScanVisit(_, _, _, _)
RECURSIVE ScanVisitEntries(_, _, _, _, _)
ScanVisit(f, dir, recursive, acc) ==
    ScanVisitEntries(f, dir, SetToSeq(ReadDir(f, dir)), recursive, acc)

ScanVisitEntries(f, dir, entries, recursive, acc) ==
    \* seen is a value held by the loop: it is evaluated at each entry
    IF acc.seen = acc.seen /\ entries = <<>> THEN acc
    ELSE
      LET path == Append(dir, Head(entries))
          real_path == Canonicalize(f, path)
          here == IF Exists(f, path \o <<nDotProj>>) /\ real_path.ok
                    THEN Discover(acc, real_path.path, Head(entries))
                    ELSE acc
          next == IF recursive /\ IsDir(f, path) THEN ScanVisit(f, path, recursive, here)
                  ELSE here
      IN  ScanVisitEntries(f, dir, Tail(entries), recursive, next)

\* scan_for_proj: the canonical paths it counts, and the names it prints
scan_for_proj(f, recursive) ==
    ScanVisit(f, ProjectsDir, recursive, ScanVisit(f, <<CurDir>>, recursive, NoneFound))

\* the calls of visit that one call visit(dir, recursive, seen) of `list` or of
\* `scan` makes, itself first, in the order they are made: each with the path it
\* is called on and the real directory that path resolves to.  list descends
\* into a directory that is not hidden and holds no manifest, scan into every
\* directory; neither asks the seen-set.
RECURSIVE VisitCalls(_, _, _, _)
VisitCalls(f, dir, cmd, recursive) ==
    LET Descends(name) ==
            LET path == Append(dir, name)
            IN  IF cmd = "list"
                  THEN IsDir(f, path) /\ ~IsHidden(name) /\ ~IsFile(f, path \o ManifestRel)
                          /\ recursive
                  ELSE recursive /\ IsDir(f, path)
        RECURSIVE Below(_)
        Below(entries) ==
            IF entries = <<>> THEN <<>>
            ELSE (IF Descends(Head(entries))
                    THEN VisitCalls(f, Append(dir, Head(entries)), cmd, recursive)
                    ELSE <<>>) \o Below(Tail(entries))
    IN  <<[path |-> Join(Cwd, dir), real |-> Canonicalize(f, dir).path]>>
            \o Below(SetToSeq(ReadDir(f, dir)))

-----------------------------------------------------------------------------
(* The manifest store.  A manifest file holds the text of a JSON object: a   *)
(* function from keys to JSON text, the text a sequence of characters: a     *)
(* string in quotes with its quotes and backslashes escaped, a number, or    *)
(* null.  A value in memory (serde_json::Value) is [t, v]: a string with its *)
(* characters, a number with its shortest decimal text, or null.             *)

Quote == "\""
Backslash == "\\"

\* serde_json's string escaping
RECURSIVE Escape(_)
Escape(v) ==
    IF v = <<>> THEN <<>>
    ELSE IF Head(v) \in {Quote, Backslash} THEN <<Backslash, Head(v)>> \o Escape(Tail(v))
    ELSE <<Head(v)>> \o Escape(Tail(v))

\* the characters of a JSON string read up to its closing quote: [ok, v, rest]
RECURSIVE Unescape(_, _)
Unescape(text, v) ==
    IF text = <<>> THEN [ok |-> FALSE, v |-> v, rest |-> <<>>]
    ELSE IF Head(text) = Quote THEN [ok |-> TRUE, v |-> v, rest |-> Tail(text)]
    ELSE IF Head(text) = Backslash
      THEN IF Len(text) >= 2 /\ text[2] \in {Quote, Backslash}
             THEN Unescape(Tail(Tail(text)), Append(v, text[2]))
             ELSE [ok |-> FALSE, v |-> v, rest |-> <<>>]
    ELSE Unescape(Tail(text), Append(v, Head(text)))

JStr(v) == <<Quote>> \o Escape(v) \o <<Quote>>

JNull == <<"null">>

StringValue(v) == [t |-> "str", v |-> v]
NumberValue(v) == [t |-> "num", v |-> v]
NullValue == [t |-> "null", v |-> <<>>]

Digits == {"0", "1", "2", "3", "4", "5", "6", "7", "8", "9"}

RECURSIVE StripLeadingZeros(_)
StripLeadingZeros(d) ==
    IF d # <<>> /\ Head(d) = "0" THEN StripLeadingZeros(Tail(d)) ELSE d

RECURSIVE StripTrailingZeros(_)
StripTrailingZeros(d) ==
    IF d # <<>> /\ Last(d) = "0" THEN StripTrailingZeros(Front(d)) ELSE d

\* the text serde_json writes for a finite f64: the shortest decimal that reads
\* back as the same number, always with a fraction (1 is written 1.0)
NumberText(neg, int, frac) ==
    LET i == StripLeadingZeros(int)
        r == StripTrailingZeros(frac)
    IN  (IF neg THEN <<"-">> ELSE <<>>) \o (IF i = <<>> THEN <<"0">> ELSE i) \o <<".">>
            \o (IF r = <<>> THEN <<"0">> ELSE r)

\* no text is read as a number
ParseNothing(v) == [ok |-> FALSE, val |-> NullValue]

\* value.parse::<f64>() followed by json!(f): an optional sign, then digits
\* with at most one point and at least one digit, or NaN or inf (the tokens
\* "NaN" and "inf"), which json! turns into null.  Exponents are not drawn.
ParseF64(v) ==
    LET signed == v # <<>> /\ Head(v) \in {"+", "-"}
        body == IF signed THEN Tail(v) ELSE v
        points == {i \in 1..Len(body) : body[i] = "."}
        point == IF points = {} THEN Len(body) + 1 ELSE CHOOSE i \in points : TRUE
    IN  IF body \in {<<"NaN">>, <<"inf">>} THEN [ok |-> TRUE, val |-> NullValue]
        ELSE IF /\ \A i \in 1..Len(body) : body[i] \in Digits \cup {"."}
                /\ Cardinality(points) <= 1
                /\ \E i \in 1..Len(body) : body[i] \in Digits
          THEN [ok |-> TRUE,
                val |-> NumberValue(NumberText(signed /\ Head(v) = "-",
                                               SubSeq(body, 1, point - 1),
                                               SubSeq(body, point + 1, Len(body))))]
        ELSE [ok |-> FALSE, val |-> NullValue]

\* serde_json::to_string_pretty of one value
Encode(val) ==
    CASE val.t = "str" -> JStr(val.v)
      [] val.t = "num" -> val.v
      [] val.t = "null" -> JNull

\* serde_json::from_str of one value: [ok, val]
Decode(text) ==
    IF text = JNull THEN [ok |-> TRUE, val |-> NullValue]
    ELSE IF text # <<>> /\ Head(text) = Quote
      THEN LET u == Unescape(Tail(text), <<>>)
           IN  [ok |-> u.ok /\ u.rest = <<>>, val |-> StringValue(u.v)]
    ELSE LET n == ParseF64(text)
         IN  [ok |-> n.ok /\ n.val.t = "num", val |-> n.val]

EmptyObject == <<>>

\* utils::read_json: the object in the file, {} when the file cannot be read
\* or is not JSON
read_json(f, p) ==
    LET s == Stat(f, p)
        text == f[s.path].json
    IN  IF IsFile(f, p) /\ f[s.path].data = <<>> /\ \A k \in DOMAIN text : Decode(text[k]).ok
          THEN [k \in DOMAIN text |-> Decode(text[k]).val]
          ELSE EmptyObject

\* data[key] = value
SetKey(data, key, val) == [k \in DOMAIN data \cup {key} |-> IF k = key THEN val ELSE data[k]]

\* the loop of set_project_vars over the KEY=VALUE pairs
RECURSIVE AssignVars(_, _)
AssignVars(data, kvs) ==
    IF kvs = <<>> THEN data
    ELSE LET key == Head(kvs)[1]
             value == Head(kvs)[2]
             f64 == ParseF64(value)
         IN  IF key = "completion" /\ f64.ok
               THEN AssignVars(SetKey(data, key, f64.val), Tail(kvs))
               ELSE AssignVars(SetKey(data, key, StringValue(value)), Tail(kvs))

\* set_project_vars, run in the working directory: "Panic" when the manifest
\* cannot be written
set_project_vars(f, kvs) ==
    LET data == AssignVars(read_json(f, ManifestRel), kvs)
        w == WriteFile(f, ManifestRel,
                       [data |-> <<>>, zip |-> <<>>, json |-> [k \in DOMAIN data |-> Encode(data[k])]])
    IN  [res |-> IF w.ok THEN "Ok" ELSE "Panic", fs |-> w.fs]

MissingValue == [t |-> "missing", v |-> <<>>]

\* get_project_var: the value printed, MissingValue for "Key not found"
get_project_var(f, key) ==
    LET data == read_json(f, ManifestRel)
    IN  IF key \in DOMAIN data THEN data[key] ELSE MissingValue

nDemo == <<"demo">>

\* a manifest as init_project writes it
DefaultManifest(name) ==
    [data |-> <<>>, zip |-> <<>>,
     json |-> ("name" :> JStr(name)) @@ ("version" :> JStr(<<"0", ".", "1", ".", "0">>))
                 @@ ("description" :> JStr(<<"New project">>)) @@ ("template" :> JNull)
                 @@ ("status" :> JStr(<<"active">>)) @@ ("completion" :> <<"0", ".", "0">>)]

-----------------------------------------------------------------------------
(* Project creation: init.  It runs in the working directory.  The external  *)
(* programs it starts are inputs: whether `git init` succeeds, the template  *)
(* the prompt of select_template returns, what boilr does.  What git and gh  *)
(* keep inside .git (commits, remotes) is not part of the filesystem here:   *)
(* .git is one directory.                                                    *)

nDotGit == <<".", "git">>

nInfoPy == <<"info", ".", "py">>

nVersion == <<"V", "E", "R", "S", "I", "O", "N">>

\* a link that takes the name whatever entry has it
LinkReplacing(f, project_path) ==
    Put(f, Tail(ProjectsDir) \o <<Last(project_path)>>, LinkNode(project_path))

\* link_in_projects_dir: a registry symlink named after the path's last
\* component, unless an entry of that name resolves; a failure is only printed
link_in_projects_dir(f, project_path) ==
    LET symlink_path == ProjectsDir \o <<Last(project_path)>>
    IN  IF Exists(f, symlink_path) THEN f ELSE Symlink(f, project_path, symlink_path).fs

\* no repository is ever initialized
InitGitNever(f, path, git) == f

\* init_git_repo: `git init` unless .git exists; its outcome is discarded
init_git_repo(f, path, git) ==
    IF Exists(f, path \o <<nDotGit>>) \/ git # "ok" THEN f
    ELSE CreateDirAll(f, path \o <<nDotGit>>).fs

\* the loop of init_project over the KEY=VALUE pairs: every value a string
RECURSIVE AssignStrings(_, _)
AssignStrings(data, kvs) ==
    IF kvs = <<>> THEN data
    ELSE AssignStrings(SetKey(data, Head(kvs)[1], StringValue(Head(kvs)[2])), Tail(kvs))

\* template::apply_boilr_template: boilr generates a file in the working
\* directory; a failing boilr is only printed, one that cannot be started panics
apply_boilr_template(f, boilr) ==
    IF boilr = "ok"
      THEN [ok |-> TRUE, fs |-> WriteFile(f, <<<<"generated">>>>, Raw(<<"template">>)).fs]
      ELSE [ok |-> boilr # "missing", fs |-> f]

\* init_project: "Panic" where an expect() fails.  Each step is handed the
\* result of the call before it: Made(g) follows the making of .proj and
\* `git init`, Applied(b, g, data) the template, Updated(u, g) the last write
init_project(f, git, template, selected, boilr, kvs) ==
    LET proj_dir == Cwd \o <<nDotProj>>
        proj_file == proj_dir \o <<nManifest>>
        chosen_template == IF template.some THEN template ELSE selected
        Updated(u, g) ==
            IF ~u.ok THEN [res |-> "Panic", fs |-> g]
            ELSE [res |-> "Ok",
                  fs |-> IF StartsWith(Cwd, ProjectsDir) THEN u.fs
                         ELSE link_in_projects_dir(u.fs, Cwd)]
        Write(g, data) ==
            Updated(WriteFile(g, proj_file,
                              [data |-> <<>>, zip |-> <<>>,
                               json |-> [k \in DOMAIN data |-> Encode(data[k])]]), g)
        Applied(b, g, data) ==
            IF ~b.ok THEN [res |-> "Panic", fs |-> g]
            ELSE Write(b.fs, SetKey(data, "template", StringValue(chosen_template.path)))
        Read(g, json_data) ==
            IF ("template" \notin DOMAIN json_data \/ json_data["template"].t # "str")
                  /\ chosen_template.some
              THEN Applied(apply_boilr_template(g, boilr), g, json_data)
              ELSE Write(g, json_data)
        Made(g) == Read(g, AssignStrings(read_json(g, proj_file), kvs))
        Wrote(w, g) ==
            IF ~w.ok THEN [res |-> "Panic", fs |-> g]
            ELSE Made(init_git_repo(w.fs, Cwd, git))
        Created(d) ==
            IF ~d.ok THEN [res |-> "Panic", fs |-> f]
            ELSE Wrote(WriteFile(d.fs, proj_file, DefaultManifest(Last(Cwd))), d.fs)
    IN  IF Exists(f, proj_dir) THEN Made(init_git_repo(f, Cwd, git))
        ELSE Created(CreateDirAll(f, proj_dir))

-----------------------------------------------------------------------------
(* Project creation: clone.  A source is a text, a sequence of characters    *)
(* and words with "/" between its segments.  What `git clone` materializes   *)
(* and what `git describe` prints are inputs.                                *)

\* source.starts_with("http://") || starts_with("https://") || starts_with("git@")
IsUrl(source) ==
    \/ Len(source) >= 3 /\ SubSeq(source, 1, 3) \in {<<"http:", "/", "/">>, <<"https:", "/", "/">>}
    \/ source # <<>> /\ Head(source) = "git@"

\* str::trim_end_matches(".git"): strips every trailing ".git"
RECURSIVE TrimGit(_)
TrimGit(n) ==
    IF Len(n) >= 2 /\ SubSeq(n, Len(n) - 1, Len(n)) = nDotGit THEN TrimGit(SubSeq(n, 1, Len(n) - 2))
    ELSE n

\* source.split('/').last().trim_end_matches(".git")
CloneName(source) ==
    LET slashes == {i \in 1..Len(source) : source[i] = "/"}
        from == IF slashes = {} THEN 1 ELSE (CHOOSE i \in slashes : \A j \in slashes : j <= i) + 1
    IN  TrimGit(SubSeq(source, from, Len(source)))

\* a relative destination taken from the working directory
CloneDestInCwd(source, dest) ==
    IF dest.some THEN IF Head(dest.path) = RootDir THEN JoinName(dest.path, CloneName(source))
                      ELSE JoinName(<<CurDir>>, CloneName(source))
    ELSE JoinName(ProjectsDir, CloneName(source))

\* the destination clone_project resolves; `.` and `./` are the path <<CurDir>>
CloneDest(source, dest) ==
    IF dest.some
      THEN IF dest.path = <<CurDir>> THEN JoinName(<<CurDir>>, CloneName(source))
           ELSE IF dest.path # <<>> /\ Head(dest.path) = RootDir
             THEN JoinName(dest.path, CloneName(source))
           ELSE ProjectsDir \o dest.path
    ELSE JoinName(ProjectsDir, CloneName(source))

\* `git clone <source> <dest>`: the repository's tree appears at a destination
\* that is not there yet
GitClone(f, dest_path, cloned) ==
    LET s == Stat(f, dest_path)
    IN  IF cloned.ok /\ ~s.ok /\ ~s.dangling /\ Len(s.missing) = 1 /\ IsNormal(s.missing[1])
          THEN [ok |-> TRUE, fs |-> PlaceTree(f, Append(s.path, s.missing[1]), cloned.tree)]
          ELSE [ok |-> FALSE, fs |-> f]

\* fs_extra::dir::copy with copy_inside onto a destination that is not there:
\* the content of `from` is read first, symlinks followed, then written below
\* `to`; g is the filesystem written to
RECURSIVE CopyDir(_, _, _, _)
RECURSIVE CopyEntries(_, _, _, _, _)
CopyDir(f, g, from, to) ==
    LET d == CreateDirAll(g, to)
    IN  IF ~d.ok THEN d ELSE CopyEntries(f, d.fs, from, to, SetToSeq(ReadDir(f, from)))

CopyEntries(f, g, from, to, entries) ==
    IF entries = <<>> THEN [ok |-> TRUE, fs |-> g]
    ELSE
      LET src == Append(from, Head(entries))
          dst == Append(to, Head(entries))
          r == IF IsDir(f, src) THEN CopyDir(f, g, src, dst)
               ELSE IF IsFile(f, src) THEN WriteFile(g, dst, f[Stat(f, src).path])
               ELSE [ok |-> FALSE, fs |-> g]
      IN  IF ~r.ok THEN r ELSE CopyEntries(f, r.fs, from, to, Tail(entries))

\* str::lines: the text between line feeds
RECURSIVE Lines(_)
Lines(s) ==
    LET feeds == {i \in 1..Len(s) : s[i] = "\n"}
        i == CHOOSE k \in feeds : \A j \in feeds : k <= j
    IN  IF s = <<>> THEN <<>>
        ELSE IF feeds = {} THEN <<s>>
        ELSE <<SubSeq(s, 1, i - 1)>> \o Lines(SubSeq(s, i + 1, Len(s)))

\* [&str]::join(" ")
RECURSIVE JoinLines(_)
JoinLines(lines) ==
    IF lines = <<>> THEN <<>>
    ELSE IF Len(lines) = 1 THEN lines[1]
    ELSE lines[1] \o <<" ">> \o JoinLines(Tail(lines))

\* fs::read_to_string: [ok, text]
ReadToString(f, p) ==
    IF IsFile(f, p) THEN [ok |-> TRUE, text |-> f[Stat(f, p).path].data]
    ELSE [ok |-> FALSE, text |-> <<>>]

\* the description: the first three lines of the first README that can be read
Description(f, dest_path) ==
    LET ReadmeNames == << <<"README", ".", "md">>, <<"README", ".", "mkd">>, <<"README">> >>
        readable == {i \in 1..Len(ReadmeNames) : ReadToString(f, Append(dest_path, ReadmeNames[i])).ok}
        i == CHOOSE k \in readable : \A j \in readable : k <= j
        lines == Lines(ReadToString(f, Append(dest_path, ReadmeNames[i])).text)
    IN  IF readable = {} THEN <<>>
        ELSE JoinLines(SubSeq(lines, 1, IF Len(lines) < 3 THEN Len(lines) ELSE 3))

\* str::trim_matches of quotes and white space
RECURSIVE TrimQuotes(_)
TrimQuotes(s) ==
    IF s = <<>> THEN s
    ELSE IF IsSpace(Head(s)) \/ Head(s) \in {"'", Quote} THEN TrimQuotes(Tail(s))
    ELSE IF IsSpace(Last(s)) \/ Last(s) \in {"'", Quote} THEN TrimQuotes(Front(s))
    ELSE s

\* the version the first `__version__...=` line of info.py assigns: [ok, text]
RECURSIVE InfoVersion(_)
InfoVersion(lines) ==
    IF lines = <<>> THEN [ok |-> FALSE, text |-> <<>>]
    ELSE
      LET line == Head(lines)
          rest == Tail(line)
          eqs == {i \in 1..Len(rest) : rest[i] = "="}
          first == CHOOSE i \in eqs : \A j \in eqs : i <= j
          after == SubSeq(rest, first + 1, Len(rest))
          more == {i \in 1..Len(after) : after[i] = "="}
          upto == IF more = {} THEN Len(after) ELSE (CHOOSE i \in more : \A j \in more : i <= j) - 1
      IN  IF line # <<>> /\ Head(line) = "__version__" /\ eqs # {}
            THEN [ok |-> TRUE, text |-> TrimQuotes(SubSeq(after, 1, upto))]
            ELSE InfoVersion(Tail(lines))

\* the version of the synthesized manifest: the tag `git describe` prints, else
\* info.py, else a VERSION file, else 0.0.1; WalkDir names the entries below
\* the destination, symlinks not followed, in the order read_dir gives them
Version(f, dest_path, tag) ==
    LET DefaultVersion == <<"0", ".", "0", ".", "1">>
        root == Stat(f, dest_path).path
        entries == Subtree(f, root)
        tagged == IF Exists(f, Append(dest_path, nDotGit)) /\ tag.ok THEN Trim(tag.text)
                  ELSE DefaultVersion
        infos == {q \in entries : Last(q) = nInfoPy}
        info == ReadToString(f, AbsOf(CHOOSE q \in infos : TRUE))
        assigned == InfoVersion(Lines(info.text))
        informed == IF tagged = DefaultVersion /\ infos # {} /\ info.ok /\ assigned.ok
                      THEN assigned.text
                      ELSE tagged
        versions == {q \in entries : ToLower(Last(q)) = ToLower(nVersion)
                                     /\ ReadToString(f, AbsOf(q)).ok}
    IN  IF informed = DefaultVersion /\ versions # {}
          THEN Trim(ReadToString(f, AbsOf(CHOOSE q \in versions : TRUE)).text)
          ELSE informed

\* the manifest clone_project writes where none is found
SynthesizedManifest(f, source, dest_path, tag) ==
    LET data == ("name" :> StringValue(Last(dest_path)))
                    @@ ("template" :> IF IsUrl(source) THEN StringValue(source) ELSE NullValue)
                    @@ ("description" :> StringValue(Description(f, dest_path)))
                    @@ ("version" :> StringValue(Version(f, dest_path, tag)))
                    @@ ("completion" :> NumberValue(<<"1", ".", "0">>))
                    @@ ("status" :> StringValue(<<"active">>))
    IN  [data |-> <<>>, zip |-> <<>>, json |-> [k \in DOMAIN data |-> Encode(data[k])]]

\* every destination taken to lack a manifest
ManifestAlwaysMissing(f, proj_file) == TRUE

\* !proj_file.exists()
ManifestMissing(f, proj_file) == ~Exists(f, proj_file)

\* clone_project.  Each step is handed the result of the call before it:
\* Into(d) follows the making of the destination's parent, Found the lookup of
\* a local source, Materialized(m, g, by_git) the git clone or the copy,
\* Prepared(p, g) the making of .proj, Wrote(w, g) the writing of the manifest
clone_project(f, source, dest, git_clone, cloned, tag) ==
    LET dest_path == CloneDest(source, dest)
        proj_file == dest_path \o ManifestRel
        Linked(g) == IF StartsWith(dest_path, ProjectsDir) THEN g
                     ELSE link_in_projects_dir(g, dest_path)
        Wrote(w, g) ==
            IF ~w.ok THEN [res |-> "IoFailure", fs |-> g]
            ELSE [res |-> "Ok", fs |-> Linked(w.fs)]
        Prepared(p, g) ==
            IF ~p.ok THEN [res |-> "IoFailure", fs |-> g]
            ELSE Wrote(WriteFile(p.fs, proj_file,
                                 SynthesizedManifest(p.fs, source, dest_path, tag)), p.fs)
        Materialized(m, g, by_git) ==
            IF ~m.ok
              THEN [res |-> IF by_git THEN "ExternalToolFailure" ELSE "IoFailure", fs |-> g]
            ELSE IF ~ManifestMissing(m.fs, proj_file) THEN [res |-> "Ok", fs |-> Linked(m.fs)]
            ELSE Prepared(CreateDirAll(m.fs, Front(proj_file)), m.fs)
        Found(source_path, g) ==
            IF IsUrl(source) THEN Materialized(GitClone(g, dest_path, cloned), g, TRUE)
            ELSE IF ~source_path.some THEN [res |-> "NotFound", fs |-> g]
            ELSE IF git_clone /\ Exists(g, Append(source_path.path, nDotGit))
              THEN Materialized(GitClone(g, dest_path, cloned), g, TRUE)
            ELSE Materialized(CopyDir(g, g, source_path.path, dest_path), g, FALSE)
        Into(d) ==
            IF ~d.ok THEN [res |-> "IoFailure", fs |-> f]
            ELSE Found(IF IsUrl(source) THEN None ELSE find_project_path(d.fs, source), d.fs)
    IN  IF Exists(f, dest_path) THEN [res |-> "Conflict", fs |-> f]
        ELSE Into(CreateDirAll(f, Front(dest_path)))

-----------------------------------------------------------------------------
(* The lines of `list`: one per project found.  What the git commands of the *)
(* status probe do is an input, one outcome per command: whether the        *)
(* program could be started (ran), its exit code, and whether it wrote to    *)
(* its standard output (stdout).  A number is kept in hundredths.            *)

\* git_status_flags: (unadded, uncommitted, unpushed) from the outcomes of
\* git ls-files, git diff --quiet, git diff --cached --quiet, git rev-parse
\* and git log.  output() and status() are Err when git cannot be started.
git_status_flags(probe) ==
    LET NotSuccess(o) == o.ran /\ o.code # 0
    IN  [unadded |-> probe.ls_files.ran /\ probe.ls_files.stdout,
         uncommitted |-> NotSuccess(probe.diff) \/ NotSuccess(probe.diff_cached),
         unpushed |-> /\ probe.rev_parse.ran /\ probe.rev_parse.code = 0
                      /\ probe.log.ran /\ probe.log.stdout]

\* Value::as_f64 of a number, in hundredths: the text serde_json keeps has a
\* point; digits past the second decimal place are not drawn
Hundredths(text) ==
    LET neg == Head(text) = "-"
        body == IF neg THEN Tail(text) ELSE text
        point == CHOOSE i \in 1..Len(body) : body[i] = "."
        DigitOf(ch) == CHOOSE n \in 0..9 : ToString(n) = ch
        RECURSIVE DigitsValue(_)
        DigitsValue(d) == IF d = <<>> THEN 0 ELSE 10 * DigitsValue(Front(d)) + DigitOf(Last(d))
        frac == SubSeq(body, point + 1, Len(body)) \o <<"0", "0">>
        n == 100 * DigitsValue(SubSeq(body, 1, point - 1)) + DigitsValue(SubSeq(frac, 1, 2))
    IN  IF neg THEN 0 - n ELSE n

\* the bar of `list --progress` for a completion given in hundredths:
\* filled = (completion * 20).round() as usize, where `as` turns a negative
\* number into 0, and empty = bar_len - filled on usize.  When filled is more
\* than bar_len the subtraction overflows: a build with overflow checks
\* panics there, a build without them wraps to 2^64 - (filled - bar_len) and
\* panics in str::repeat, whose byte length then overflows.
ProgressBar(completion, overflow_checks) ==
    LET bar_len == 20
        scaled == completion * bar_len
        rounded == IF scaled >= 0 THEN (scaled + 50) \div 100 ELSE 0 - ((50 - scaled) \div 100)
        filled == IF rounded < 0 THEN 0 ELSE rounded
    IN  IF filled <= bar_len
          THEN [res |-> "Ok", filled |-> filled, empty |-> bar_len - filled]
          ELSE [res |-> IF overflow_checks THEN "SubtractOverflow" ELSE "CapacityOverflow",
                filled |-> filled, empty |-> 0]

\* the loop of list_projects over all_projects: the lines printed, up to the
\* line the command panics at
RECURSIVE ListLines(_, _, _, _, _, _)
ListLines(f, all_projects, status_filter, show_progress, probe, overflow_checks) ==
    IF all_projects = <<>> THEN [res |-> "Ok", lines |-> <<>>]
    ELSE
      LET project_path == Head(all_projects)
          Rest(line) ==
              IF line.bar.res # "Ok" THEN [res |-> "Panic", lines |-> <<line>>]
              ELSE LET More(r) == [res |-> r.res, lines |-> <<line>> \o r.lines]
                   IN  More(ListLines(f, Tail(all_projects), status_filter, show_progress,
                                      probe, overflow_checks))
          Line(data) ==
              LET status == IF "status" \in DOMAIN data /\ data["status"].t = "str"
                              THEN data["status"].v ELSE <<"active">>
                  completion == IF "completion" \in DOMAIN data /\ data["completion"].t = "num"
                                  THEN Hundredths(data["completion"].v) ELSE 0
              IN  IF status_filter # <<"all">> /\ status # status_filter
                    THEN ListLines(f, Tail(all_projects), status_filter, show_progress,
                                   probe, overflow_checks)
                    ELSE Rest([path |-> project_path,
                               flags |-> IF Exists(f, Append(project_path, nDotGit))
                                           THEN git_status_flags(probe)
                                           ELSE [unadded |-> FALSE, uncommitted |-> FALSE,
                                                 unpushed |-> FALSE],
                               completion |-> completion,
                               bar |-> IF show_progress
                                         THEN ProgressBar(completion, overflow_checks)
                                         ELSE [res |-> "Ok", filled |-> 0, empty |-> 0]])
      IN  IF ~IsFile(f, project_path \o ManifestRel)
            THEN ListLines(f, Tail(all_projects), status_filter, show_progress, probe,
                           overflow_checks)
            ELSE Line(read_json(f, project_path \o ManifestRel))

-----------------------------------------------------------------------------
(* The filesystems the commands start from. *)

\* the directories every run starts with: /home/projects, /work, /ext
BaseFs ==
    LET dirs == {<<nHome>>, <<nHome, nProjects>>, <<nWork>>, <<nExt>>}
    IN  [q \in dirs |-> DirNode]

\* project trees, as relative path -> node
TreeManifestOnly(name) ==
    LET paths == {<<>>, <<nDotProj>>, <<nDotProj, nManifest>>}
    IN  [q \in paths |-> IF q = <<nDotProj, nManifest>> THEN FileNode(DefaultManifest(name))
                         ELSE DirNode]

TreeWithEmptyDir(name) ==
    LET t == TreeManifestOnly(name)
    IN  Put(Put(t, <<<<"src">>>>, FileNode(Raw(<<"fn main">>))), <<<<"empty">>>>, DirNode)

TreeNested(name) ==
    LET t == TreeManifestOnly(name)
    IN  Put(Put(t, <<<<"lib">>>>, DirNode), <<<<"lib">>, <<"a">>>>, FileNode(Raw(<<"mod a">>)))

Trees(name) == {TreeManifestOnly(name), TreeWithEmptyDir(name), TreeNested(name)}

\* where the project lives: in the registry, outside it behind a registry symlink,
\* in the working directory unregistered, or in the scoped registry ~/.proj/projects
Locations == {"registry", "linked", "cwd", "scoped"}

PlaceProject(f, name, loc, tree) ==
    CASE loc = "registry" -> PlaceTree(f, <<nHome, nProjects, name>>, tree)
      [] loc = "linked" -> Put(PlaceTree(f, <<nWork, name>>, tree), <<nHome, nProjects, name>>,
                               LinkNode(Cwd \o <<name>>))
      [] loc = "cwd" -> PlaceTree(f, <<nWork, name>>, tree)
      [] loc = "scoped" -> PlaceTree(Put(Put(f, <<nHome, nDotProj>>, DirNode),
                                         <<nHome, nDotProj, nProjects>>, DirNode),
                                     <<nHome, nDotProj, nProjects, name>>, tree)

\* layouts for discovery: what sits at /work/a, what ~/projects/b is, and
\* whether /work/.h is a project; in the cycle layout /work/a holds a project
\* and a symlink loop that leads back to /work/a
nA == <<"a">>
nB == <<"b">>
nInner == <<"inner">>
nX == <<"x">>
nHidden == <<".", "h">>
nLoop == <<"loop">>

WorkSlots == {"absent", "project", "holder", "nested", "bare", "cycle"}
RegistrySlots == {"absent", "project", "link-work", "link-ext", "no-registry"}

PlaceWork(f, slot) ==
    CASE slot = "absent" -> f
      [] slot = "project" -> PlaceTree(f, <<nWork, nA>>, TreeManifestOnly(nA))
      [] slot = "holder" -> PlaceTree(Put(f, <<nWork, nA>>, DirNode), <<nWork, nA, nInner>>,
                                      TreeManifestOnly(nInner))
      [] slot = "nested" -> PlaceTree(PlaceTree(f, <<nWork, nA>>, TreeManifestOnly(nA)),
                                      <<nWork, nA, nInner>>, TreeManifestOnly(nInner))
      [] slot = "bare" -> Put(Put(f, <<nWork, nA>>, DirNode), <<nWork, nA, nDotProj>>, DirNode)
      [] slot = "cycle" -> Put(PlaceTree(Put(f, <<nWork, nA>>, DirNode), <<nWork, nA, nInner>>,
                                         TreeManifestOnly(nInner)),
                               <<nWork, nA, nLoop>>, LinkNode(Cwd \o <<nA>>))

PlaceRegistry(f, slot) ==
    CASE slot = "absent" -> f
      [] slot = "project" -> PlaceTree(f, <<nHome, nProjects, nB>>, TreeManifestOnly(nB))
      [] slot = "link-work" -> Put(f, <<nHome, nProjects, nB>>, LinkNode(Cwd \o <<nA>>))
      [] slot = "link-ext" -> Put(PlaceTree(f, <<nExt, nX>>, TreeManifestOnly(nX)),
                                  <<nHome, nProjects, nB>>, LinkNode(<<RootDir, nExt, nX>>))
      [] slot = "no-registry" -> Restrict(f, DOMAIN f \ {<<nHome, nProjects>>})

PlaceHidden(f, hidden) ==
    IF hidden THEN PlaceTree(f, <<nWork, nHidden>>, TreeManifestOnly(nHidden)) ELSE f

\* the working directory as `set` and `get` find it: a project, no .proj at
\* all, a .proj without a manifest, a manifest that is not JSON; the registry
\* holds a symlink to the working directory, so that `list` reaches it
VarsFs ==
    LET Base == Put(BaseFs, <<nHome, nProjects, nWork>>, LinkNode(Cwd))
    IN  { PlaceTree(Base, <<nWork>>, TreeManifestOnly(nWork)),
          Base,
          Put(Base, <<nWork, nDotProj>>, DirNode),
          Put(Put(Base, <<nWork, nDotProj>>, DirNode), <<nWork, nDotProj, nManifest>>,
              FileNode(Raw(<<"{">>))) }

\* what a git command of the status probe can do: it cannot be started, it
\* succeeds without output or with output, it exits with 1 (git diff --quiet
\* on differences) or with 128 (a fatal error, as outside a repository); a
\* command that fails writes to its standard error only
Probes ==
    LET Outcomes == { [ran |-> FALSE, code |-> 0, stdout |-> FALSE],
                      [ran |-> TRUE, code |-> 0, stdout |-> FALSE],
                      [ran |-> TRUE, code |-> 0, stdout |-> TRUE],
                      [ran |-> TRUE, code |-> 1, stdout |-> FALSE],
                      [ran |-> TRUE, code |-> 128, stdout |-> FALSE] }
    IN  [ls_files : Outcomes, diff : Outcomes, diff_cached : Outcomes, rev_parse : Outcomes,
         log : Outcomes]

\* a clean repository without an upstream
QuietProbe ==
    LET silent == [ran |-> TRUE, code |-> 0, stdout |-> FALSE]
    IN  [ls_files |-> silent, diff |-> silent, diff_cached |-> silent,
         rev_parse |-> [ran |-> TRUE, code |-> 128, stdout |-> FALSE], log |-> silent]

\* layouts for the status probe: the project /work/a with a .git directory or
\* without one, its status active or done, and whether ~/projects links to it
StatusFs ==
    LET Done(t) == Put(t, <<nDotProj, nManifest>>,
                       FileNode([DefaultManifest(nA) EXCEPT
                                    !.json["status"] = JStr(<<"d", "o", "n", "e">>)]))
        Repo(t, git) == IF git THEN Put(t, <<nDotGit>>, DirNode) ELSE t
        Linked(f, link) == IF link THEN Put(f, <<nHome, nProjects, nB>>, LinkNode(Cwd \o <<nA>>))
                           ELSE f
    IN  { Linked(PlaceTree(BaseFs, <<nWork, nA>>, Repo(t, git)), link) :
            t \in {TreeManifestOnly(nA), Done(TreeManifestOnly(nA))},
            git \in BOOLEAN, link \in BOOLEAN }

DiscoverFs ==
    {PlaceHidden(PlaceRegistry(PlaceWork(BaseFs, w), r), h) :
        w \in WorkSlots, r \in RegistrySlots, h \in BOOLEAN}

\* archives that were not made by archive_project: their entry names are arbitrary
ForeignEntries ==
    { << [name |-> <<DotDot, DotDot, <<"escaped">>>>, slash |-> FALSE, data |-> <<"x">>, json |-> <<>>],
         [name |-> <<RootDir, nWork, <<"abs">>>>, slash |-> FALSE, data |-> <<"y">>, json |-> <<>>] >>,
      << [name |-> <<<<"sub">>, DotDot, DotDot, <<"up">>>>, slash |-> TRUE, data |-> <<>>, json |-> <<>>],
         [name |-> <<DotDot>>, slash |-> TRUE, data |-> <<>>, json |-> <<>>],
         [name |-> <<<<"sub">>, <<"f">>>>, slash |-> FALSE, data |-> <<"z">>, json |-> <<>>] >> }

ForeignArchiveName == <<"evil", "_", "20250101", "_", "0">>

PlaceForeign(f, entries) ==
    Put(Put(Put(f, <<nHome, nDotProj>>, DirNode), <<nHome, nDotProj, nArchives>>, DirNode),
        <<nHome, nDotProj, nArchives, ZipFile(ForeignArchiveName)>>,
        FileNode([data |-> <<>>, json |-> <<>>, zip |-> entries]))

\* something already at /ext/<name>
Occupants == {"none", "dir"}

PlaceOccupant(f, name, occ) ==
    CASE occ = "none" -> f
      [] occ = "dir" -> Put(f, <<nExt, name>>, DirNode)

\* one project, possibly something at /ext/<name>
ProjectFs ==
    { PlaceOccupant(PlaceProject(BaseFs, nDemo, loc, tree), nDemo, occ) :
        loc \in Locations, tree \in Trees(nDemo), occ \in Occupants }

\* the same, and possibly a foreign archive in ~/.proj/archives
ArchiveFs == ProjectFs \cup {PlaceForeign(g, e) : g \in ProjectFs, e \in ForeignEntries}

\* layouts for restore: ~/.proj/archives holds the archive that `archive name`
\* made in this second of a project in the working directory; the registry
\* entry of the name restore derives from the archive is absent or stale (a
\* symlink to another directory, a dangling symlink, a directory); a project
\* of the archived name may live in the working directory again
nMyApp == <<"my", "_", "app">>

ArchivedNames == {nDemo, nMyApp}

RestoreFs ==
    LET Archived(name, tree) ==
            archive_project(PlaceTree(BaseFs, <<nWork, name>>, tree), name, 0, "none").fs
        entry(name) == <<nHome, nProjects, OriginalName(name)>>
        Stale(f, name, stale) ==
            CASE stale = "none" -> f
              [] stale = "elsewhere" -> Put(Put(f, <<nExt, <<"other">>>>, DirNode), entry(name),
                                            LinkNode(<<RootDir, nExt, <<"other">>>>))
              [] stale = "dangling" -> Put(f, entry(name), LinkNode(<<RootDir, nExt, <<"gone">>>>))
              [] stale = "dir" -> Put(f, entry(name), DirNode)
        Live(f, name, live) ==
            IF live THEN PlaceTree(f, <<nWork, name>>, TreeWithEmptyDir(name)) ELSE f
    IN  { Live(Stale(Archived(name, IF nested THEN TreeNested(name)
                                            ELSE TreeManifestOnly(name)), name, stale), name, live) :
            name \in ArchivedNames, nested \in BOOLEAN,
            stale \in {"none", "elsewhere", "dangling", "dir"}, live \in BOOLEAN }

nFoo == <<"foo">>

\* what `git clone` and `git describe --tags` do: fail, or bring a repository
\* (sources only, or documented and versioned, or with an info.py besides, or
\* already a project), whose latest tag is none, v1 or 0.0.1
Tags ==
    { [ok |-> FALSE, text |-> <<>>],
      [ok |-> TRUE, text |-> <<"v", "1", "\n">>],
      [ok |-> TRUE, text |-> <<"0", ".", "0", ".", "1", "\n">>] }

Clones ==
    LET paths == {<<>>, <<nDotGit>>, <<<<"src">>>>}
        RepoPlain == [q \in paths |-> IF q = <<<<"src">>>> THEN FileNode(Raw(<<"fn main">>))
                                      ELSE DirNode]
        RepoDocumented ==
            Put(Put(RepoPlain, <<<<"README", ".", "md">>>>,
                    FileNode(Raw(<<"Foo", "\n", "a", " ", "tool", "\n", "\n", "Usage", "\n">>))),
                <<nVersion>>, FileNode(Raw(<<" ", "2", ".", "0", "\n">>)))
        RepoInformed ==
            Put(Put(RepoDocumented, <<<<"pkg">>>>, DirNode), <<<<"pkg">>, nInfoPy>>,
                FileNode(Raw(<<"import", " ", "os", "\n",
                               "__version__", " ", "=", " ", Quote, "1", ".", "5", Quote, "\n">>)))
        RepoProject == PlaceTree(RepoDocumented, <<>>, TreeManifestOnly(<<"upstream">>))
    IN  {[ok |-> FALSE, tree |-> RepoPlain, tag |-> [ok |-> FALSE, text |-> <<>>]]}
            \cup [ok : {TRUE}, tree : {RepoPlain, RepoDocumented, RepoInformed, RepoProject},
                   tag : Tags]

\* layouts for creation.  The working directory as `init` finds it: empty, a
\* repository, a .proj without a manifest, a project, a project made from a
\* template, a file named .proj.  The registered project `clone` can copy:
\* none, or demo with a repository.  Possibly something at /ext/foo.  And the
\* registry entries named foo and work: none, symlinks to another directory,
\* or symlinks whose target is gone.
CreateFs ==
    LET PlaceInit(f, slot) ==
            CASE slot = "empty" -> f
              [] slot = "git" -> Put(f, <<nWork, nDotGit>>, DirNode)
              [] slot = "bare" -> Put(f, <<nWork, nDotProj>>, DirNode)
              [] slot = "manifest" -> PlaceTree(f, <<nWork>>, TreeManifestOnly(nWork))
              [] slot = "templated" ->
                    LET m == DefaultManifest(nWork)
                    IN  Put(PlaceTree(f, <<nWork>>, TreeManifestOnly(nWork)),
                            <<nWork, nDotProj, nManifest>>,
                            FileNode([m EXCEPT !.json["template"] = JStr(<<"rust">>)]))
              [] slot = "file" -> Put(f, <<nWork, nDotProj>>, FileNode(Raw(<<"x">>)))
        PlaceRegistered(f, slot) ==
            CASE slot = "absent" -> f
              [] slot = "repo" -> Put(PlaceTree(f, <<nHome, nProjects, nDemo>>, TreeNested(nDemo)),
                                      <<nHome, nProjects, nDemo, nDotGit>>, DirNode)
        PlaceEntries(f, slot) ==
            LET Entry(g, name) ==
                    CASE slot = "none" -> g
                      [] slot = "elsewhere" -> Put(g, <<nHome, nProjects, name>>,
                                                   LinkNode(<<RootDir, nExt>>))
                      [] slot = "dangling" -> Put(g, <<nHome, nProjects, name>>,
                                                  LinkNode(<<RootDir, nExt, <<"gone">>>>))
            IN  Entry(Entry(f, nFoo), nWork)
    IN  { PlaceEntries(PlaceOccupant(PlaceRegistered(PlaceInit(BaseFs, w), r), nFoo, occ), e) :
            w \in {"empty", "git", "bare", "manifest", "templated", "file"},
            r \in {"absent", "repo"}, occ \in Occupants,
            e \in {"none", "elsewhere", "dangling"} }

-----------------------------------------------------------------------------
(* The commands. *)

ProjectNames == {nDemo}

Destinations == {None, Some(<<RootDir, nExt>>)}

\* what the user types at the confirmation prompt
Answers == { <<"y", "\n">>, <<" ", "Y", "E", "S", "\n">>, <<"n", "\n">>, <<"\n">>, <<>>,
             <<"y", "e", "\n">>, <<"y", " ", "\n">>, <<"y", "e", "s", "s", "\n">> }

NoCmd == [op |-> "none", name |-> <<>>, dest |-> None, force |-> FALSE, input |-> <<>>,
          kvs |-> <<>>, copy |-> FALSE, fault |-> "none", ext |-> <<>>, res |-> "Ok", at |-> 0]

Cmd(op, name, dest, force, input, res) ==
    [op |-> op, name |-> name, dest |-> dest, force |-> force, input |-> input, kvs |-> <<>>,
     copy |-> FALSE, fault |-> "none", ext |-> <<>>, res |-> res, at |-> clock]

\* the keys and values given to `set` and `get`
Keys == {"completion", "status", "k"}

Values ==
    { <<"0", ".", "4", "2">>, <<"1">>, <<"+", ".", "5", "0">>, <<"NaN">>,
      <<"1", ".", "5">>, <<"-", "0", ".", "5">>, <<"1", ".", "0", "2">>, <<"1", ".", "0", "3">>,
      <<"a", Quote, Backslash>>, <<>> }

\* `set` with one pair, and with two: the same key twice, completion with another key
VarLists ==
    {<<<<k, v>>>> : k \in Keys, v \in Values}
        \cup {<<<<k, <<"1">>>>, <<k, <<"0", ".", "4", "2">>>>>> : k \in Keys}
        \cup {<<<<"completion", <<"0", ".", "4", "2">>>>, <<"k", v>>>> : v \in Values}

\* nothing was read since the last change
NoListing == [cmd |-> "none", names |-> {}, paths |-> <<>>, recursive |-> FALSE,
              visited |-> <<>>, lines |-> <<>>, res |-> "Ok", args |-> <<>>, key |-> "", val |-> [t |-> "none", v |-> <<>>]]

Listing(cmd, names, paths, recursive) ==
    [cmd |-> cmd, names |-> names, paths |-> paths, recursive |-> recursive,
     visited |-> <<>>, lines |-> <<>>, res |-> "Ok", args |-> <<>>, key |-> "", val |-> [t |-> "none", v |-> <<>>]]

Record(cmd, r) ==
    /\ steps' = steps + 1
    /\ fs' = r.fs
    /\ pre' = fs
    /\ last' = cmd
    /\ out' = NoListing
    /\ UNCHANGED clock

Ran(cmd, r) == steps < MaxSteps /\ Record(cmd, r)

\* the tree at and below a real path, as relative path -> node
TreeAt(f, root) == [q \in {DropFirst(r, Len(root)) : r \in Subtree(f, root)} |-> f[root \o q]]

Archive(name, fault) ==
    LET Done(r) ==
            /\ Ran([Cmd("archive", name, None, FALSE, <<>>, r.res) EXCEPT !.fault = fault], r)
            /\ archived' = IF r.res = "Ok"
                             THEN Put(archived, ArchiveNameOf(name, clock),
                                      TreeAt(fs, Stat(fs, ArchiveSource(fs, name)).path))
                             ELSE archived
    IN  Done(archive_project(fs, name, clock, fault))

\* the archive names a user can pass: those listed, and one that is absent
ArchiveNames == list_archives(fs) \cup {nDemo, ArchiveNameOf(nDemo, 0), ForeignArchiveName}

Restore(aname, dest) ==
    LET Done(r) == Ran(Cmd("restore", aname, dest, FALSE, <<>>, r.res), r)
    IN  /\ Done(restore_archive(fs, aname, dest))
        /\ UNCHANGED archived

ArchiveRemove(aname) ==
    LET Done(r) == Ran(Cmd("archive-remove", aname, None, FALSE, <<>>, r.res), r)
    IN  /\ Done(remove_archive(fs, aname))
        /\ UNCHANGED archived

\* `archives` reads and prints; it is not counted among the commands that
\* change the filesystem
Archives ==
    /\ out.cmd # "archives"
    /\ out' = Listing("archives", list_archives(fs), <<>>, FALSE)
    /\ UNCHANGED <<fs, clock, last, pre, steps, archived>>

\* `migrate NAME [--destination D] [--copy]`: main drops the copy flag
Migrate(name, dest, copy) ==
    LET r == migrate_project(fs, name, dest)
    IN  /\ Ran([Cmd("migrate", name, dest, FALSE, <<>>, r.res) EXCEPT !.copy = copy], r)
        /\ UNCHANGED archived

Remove(name, force, input) ==
    LET r == remove_project(fs, name, force, input)
    IN  /\ Ran(Cmd("remove", name, None, force, input, r.res), r)
        /\ UNCHANGED archived

\* time passes between two commands
Tick ==
    /\ clock < MaxClock
    /\ clock' = clock + 1
    /\ UNCHANGED <<fs, last, pre, out, steps, archived>>

\* `list`: the projects found from "." and from ~/projects, and the lines
\* printed for them
List(status_filter, show_progress, probe, overflow_checks) ==
    /\ out.cmd # "list"
    /\ fs' = ensure_projects_dir(fs)
    /\ LET Done(all_projects, r) ==
               out' = [Listing("list", {}, all_projects, TRUE) EXCEPT
                          !.visited = VisitCalls(fs', <<CurDir>>, "list", TRUE)
                                          \o VisitCalls(fs', ProjectsDir, "list", TRUE),
                          !.lines = r.lines,
                          !.res = r.res,
                          !.args = [status_filter |-> status_filter,
                                    show_progress |-> show_progress, probe |-> probe,
                                    overflow_checks |-> overflow_checks]]
           Found(all_projects) ==
               Done(all_projects, ListLines(fs', all_projects, status_filter, show_progress,
                                            probe, overflow_checks))
       IN  Found(list_projects(fs'))
    /\ UNCHANGED <<clock, last, pre, steps, archived>>

\* `scan` and `scan -r`: the names printed, one per canonical path
Scan(recursive) ==
    /\ out.cmd # "scan" \/ out.recursive # recursive
    /\ fs' = ensure_projects_dir(fs)
    /\ LET r == scan_for_proj(fs', recursive)
       IN  out' = [Listing("scan", r.seen, r.found, recursive) EXCEPT
                      !.visited = VisitCalls(fs', <<CurDir>>, "scan", recursive)
                                      \o VisitCalls(fs', ProjectsDir, "scan", recursive)]
    /\ UNCHANGED <<clock, last, pre, steps, archived>>

\* `set KEY=VALUE...` in the working directory
SetVars(kvs) ==
    LET r == set_project_vars(fs, kvs)
    IN  /\ steps < MaxSets
        /\ Record([Cmd("set", <<>>, None, FALSE, <<>>, r.res) EXCEPT !.kvs = kvs], r)
        /\ UNCHANGED archived

\* `get KEY` in the working directory
Get(key) ==
    /\ out.cmd # "get" \/ out.key # key
    /\ out' = [NoListing EXCEPT !.cmd = "get", !.key = key, !.val = get_project_var(fs, key)]
    /\ UNCHANGED <<fs, clock, last, pre, steps, archived>>

\* `init [--template T] [KEY=VAL ...]` in the working directory
InitProject(git, template, selected, boilr, kvs) ==
    LET Done(r) == Record([Cmd("init", Last(Cwd), None, FALSE, <<>>, r.res) EXCEPT
                              !.kvs = kvs,
                              !.ext = [git |-> git, template |-> template,
                                       selected |-> selected, boilr |-> boilr]], r)
    IN  /\ steps < MaxSets
        /\ Done(init_project(ensure_projects_dir(fs), git, template, selected, boilr, kvs))
        /\ UNCHANGED archived

\* `clone SOURCE [DEST] [--git-clone]`
UrlFoo == <<"https:", "/", "/", "example", ".", "com", "/", "foo", ".", "git">>


Clone(source, dest, git_clone, cloned) ==
    LET Done(r) == Record([Cmd("clone", source, dest, FALSE, <<>>, r.res) EXCEPT
                              !.ext = [git_clone |-> git_clone, cloned |-> cloned]], r)
    IN  /\ steps < MaxSets
        /\ Done(clone_project(fs, source, dest, git_clone, cloned, cloned.tag))
        /\ UNCHANGED archived

\* the archive engine: archive, restore, archive-remove, archives
Init ==
    /\ fs \in ArchiveFs
    /\ clock = 0
    /\ last = NoCmd
    /\ pre = fs
    /\ out = NoListing
    /\ steps = 0
    /\ archived = <<>>

Next ==
    \/ \E name \in ProjectNames : Archive(name, "none")
    \/ \E aname \in ArchiveNames, dest \in Destinations : Restore(aname, dest)
    \/ \E aname \in ArchiveNames : ArchiveRemove(aname)
    \/ Archives
    \/ Tick

Spec == Init /\ [][Next]_vars

\* restore and archive over archives that exist
InitRestore ==
    /\ fs \in RestoreFs
    /\ clock = 0
    /\ last = NoCmd
    /\ pre = fs
    /\ out = NoListing
    /\ steps = 0
    /\ archived = <<>>

NextRestore ==
    \/ \E aname \in list_archives(fs), dest \in Destinations : Restore(aname, dest)
    \/ \E name \in ArchivedNames : Archive(name, "none")
    \/ \E aname \in list_archives(fs) : ArchiveRemove(aname)
    \/ Tick

SpecRestore == InitRestore /\ [][NextRestore]_vars

\* the lifecycle operations: migrate, remove
InitLifecycle ==
    /\ fs \in ProjectFs
    /\ clock = 0
    /\ last = NoCmd
    /\ pre = fs
    /\ out = NoListing
    /\ steps = 0
    /\ archived = <<>>

NextLifecycle ==
    \/ \E name \in ProjectNames, dest \in Destinations, copy \in BOOLEAN : Migrate(name, dest, copy)
    \/ \E name \in ProjectNames, input \in Answers : Remove(name, FALSE, input)
    \/ \E name \in ProjectNames : Remove(name, TRUE, <<>>)

SpecLifecycle == InitLifecycle /\ [][NextLifecycle]_vars

\* archive, with the failures its writing can meet
NextFaults ==
    \/ \E name \in ProjectNames, fault \in Faults : Archive(name, fault)
    \/ Tick

SpecFaults == InitLifecycle /\ [][NextFaults]_vars

\* discovery: list, scan
InitDiscover ==
    /\ fs \in DiscoverFs
    /\ clock = 0
    /\ last = NoCmd
    /\ pre = fs
    /\ out = NoListing
    /\ steps = 0
    /\ archived = <<>>

NextDiscover ==
    \/ List(<<"all">>, FALSE, QuietProbe, TRUE)
    \/ \E recursive \in BOOLEAN : Scan(recursive)

SpecDiscover == InitDiscover /\ [][NextDiscover]_vars

\* the manifest store: set, get
InitVars ==
    /\ fs \in VarsFs
    /\ clock = 0
    /\ last = NoCmd
    /\ pre = fs
    /\ out = NoListing
    /\ steps = 0
    /\ archived = <<>>

NextVars ==
    \/ \E kvs \in VarLists : SetVars(kvs)
    \/ \E key \in Keys \cup {"absent"} : Get(key)
    \/ \E status_filter \in {<<"all">>, <<"active">>}, overflow_checks \in BOOLEAN :
            List(status_filter, TRUE, QuietProbe, overflow_checks)

SpecVars == InitVars /\ [][NextVars]_vars

\* the status probe: list over every outcome of the git commands
InitStatus ==
    /\ fs \in StatusFs
    /\ clock = 0
    /\ last = NoCmd
    /\ pre = fs
    /\ out = NoListing
    /\ steps = 0
    /\ archived = <<>>

NextStatus ==
    \E status_filter \in {<<"all">>, <<"active">>}, probe \in Probes :
        List(status_filter, FALSE, probe, TRUE)

SpecStatus == InitStatus /\ [][NextStatus]_vars

\* project creation: init, clone
InitCreate ==
    /\ fs \in CreateFs
    /\ clock = 0
    /\ last = NoCmd
    /\ pre = fs
    /\ out = NoListing
    /\ steps = 0
    /\ archived = <<>>

NextCreate ==
    \/ \E git \in {"ok", "fails"}, template \in {None, Some(<<"rust">>)},
          selected \in {None, Some(<<"rust">>)}, boilr \in {"ok", "missing"},
          kvs \in {<<>>, <<<<"status", <<"d", "o", "n", "e">>>>>>} :
            InitProject(git, template, selected, boilr, kvs)
    \/ \E source \in {UrlFoo, nDemo, <<"ghost">>},
          dest \in {None, Some(<<CurDir>>), Some(<<RootDir, nExt>>), Some(<<<<"mine">>>>)},
          git_clone \in BOOLEAN, cloned \in Clones :
            Clone(source, dest, git_clone, cloned)

SpecCreate == InitCreate /\ [][NextCreate]_vars

-----------------------------------------------------------------------------
(* Properties of the archive engine, checked under Spec and SpecFaults. *)

\* the paths that two filesystems differ at
Changed(f, g) ==
    {q \in DOMAIN f \cup DOMAIN g :
        IF q \in DOMAIN f /\ q \in DOMAIN g THEN f[q] # g[q] ELSE TRUE}

\* the archive files of ~/.proj/archives, as real paths
ArchiveFiles(f) == {q \in DOMAIN f : Len(q) = Len(ArchivesDir) /\ IsPrefix(Tail(ArchivesDir), q)}

\* the archive file a restore or archive-remove command names
ArchiveFileOf(aname) == Tail(ArchivesDir) \o <<ZipFile(aname)>>

\* C1: archiving a project and restoring the archive with the default
\* destination yields a tree with exactly the relative paths and the file
\* contents the project had when it was archived.
ArchiveRestoreRoundTrip ==
    (last.op = "restore" /\ last.res = "Ok" /\ ~last.dest.some /\ last.name \in DOMAIN archived)
        => TreeAt(fs, Tail(RestoreDest(last.name, last.dest))) = archived[last.name]

\* C3: whatever the entry names of the archive, everything a restore changes
\* lies inside the destination root <destination>/<original_name>; the only
\* other things it touches are missing parent directories of that root and
\* the registry entry ~/projects/<original_name> it links the destination by.
RestoreStaysInsideDestination ==
    last.op = "restore" =>
        LET root == Tail(RestoreDest(last.name, last.dest))
            link == Tail(JoinName(ProjectsDir, OriginalName(last.name)))
        IN  \A q \in Changed(pre, fs) :
                \/ IsPrefix(root, q)
                \/ q = link /\ ~StartsWith(AbsOf(root), ProjectsDir)
                     /\ (q \in DOMAIN fs => fs[q].k = "link")
                \/ IsPrefix(q, root) /\ q \notin DOMAIN pre /\ fs[q].k = "dir"

\* C3 witness: an archive with `..` and absolute entry names was restored.
RestoredHostileArchive ==
    /\ last.op = "restore"
    /\ last.res = "Ok"
    /\ ArchiveFileOf(last.name) \in DOMAIN pre
    /\ LET zip == pre[ArchiveFileOf(last.name)].zip
       IN  /\ \E i \in 1..Len(zip) : DotDot \in Range(zip[i].name)
           /\ \E i \in 1..Len(zip) : RootDir \in Range(zip[i].name)
    /\ \E q \in Changed(pre, fs) : fs[q].k = "file"

\* C4: a restore of an archive whose destination <destination or
\* ~/projects>/<original_name> exists fails with Conflict, and a restore whose
\* destination exists changes nothing in the filesystem.
RestoreConflictWritesNothing ==
    (last.op = "restore" /\ Exists(pre, RestoreDest(last.name, last.dest)))
        => /\ last.res # "Ok"
           /\ fs = pre
           /\ Exists(pre, AbsOf(ArchiveFileOf(last.name))) => last.res = "Conflict"

\* C4 witness: a restore hit an existing destination and ended in Conflict.
RestoreHitConflict ==
    /\ last.op = "restore"
    /\ last.res = "Conflict"
    /\ Exists(pre, RestoreDest(last.name, last.dest))
    /\ Subtree(pre, Tail(RestoreDest(last.name, last.dest))) # {}

\* C7 as the spec states it: after `archive demo`, `archives` lists `demo`,
\* `archive-remove demo` succeeds, and `archives` then reports none.
ArchiveListedByProjectName ==
    /\ [](last.op = "archive" /\ last.res = "Ok" /\ out.cmd = "archives" => last.name \in out.names)
    /\ [][(last.op = "archive" /\ last.res = "Ok" /\ last'.op = "archive-remove"
             /\ last'.name = last.name) => last'.res = "Ok"]_vars
    /\ [](last.op = "archive-remove" /\ last.res = "Ok" /\ out.cmd = "archives"
             /\ list_archives(pre) = {last.name} => out.names = {})

\* C7 amended: after `archive demo` succeeds at time t, `archives` lists the
\* entry demo_<timestamp of t>; `archive-remove` of that entry then succeeds;
\* after it `archives` lists what it listed before less that entry, so it
\* reports none when no other archive is stored.
ArchiveListedByArchiveName ==
    /\ [](last.op = "archive" /\ last.res = "Ok" /\ out.cmd = "archives"
             => (last.name \o <<"_">> \o Timestamp(last.at)) \in out.names)
    /\ [][(last.op = "archive" /\ last.res = "Ok" /\ last'.op = "archive-remove"
             /\ last'.name = last.name \o <<"_">> \o Timestamp(last.at)) => last'.res = "Ok"]_vars
    /\ [](last.op = "archive-remove" /\ last.res = "Ok" /\ out.cmd = "archives"
             => /\ out.names = list_archives(pre) \ {last.name}
                /\ (list_archives(pre) = {last.name} => out.names = {}))

\* C7 witness: the archive of demo was removed by its listed name and
\* `archives` then printed that none is found.
ArchiveRemovedAndNoneListed ==
    /\ last.op = "archive-remove"
    /\ last.res = "Ok"
    /\ last.name \in DOMAIN archived
    /\ OriginalName(last.name) = nDemo
    /\ out.cmd = "archives"
    /\ out.names = {}

\* C8: after a successful archive the live project directory no longer exists
\* and the registry has no entry of the project's name, whether the project
\* was a real directory of the registry or reached through a registry symlink.
ArchiveDeletesProject ==
    (last.op = "archive" /\ last.res = "Ok")
        => /\ Stat(pre, ArchiveSource(pre, last.name)).path \notin DOMAIN fs
           /\ ~LExists(fs, ProjectsDir \o <<last.name>>)


\* C15: archive-remove of a name whose file <archives-dir>/<name>.zip is absent
\* fails with NotFound and changes nothing; otherwise it deletes that file and
\* nothing else.  A restore of an absent archive fails with NotFound, a restore
\* that follows the removal of its archive in particular, and an archive file
\* that is absent stays absent until an archive command writes that name.
RemovedArchiveStaysGone ==
    /\ [](last.op = "archive-remove" =>
            IF ~Exists(pre, AbsOf(ArchiveFileOf(last.name)))
              THEN last.res = "NotFound" /\ fs = pre
              ELSE /\ last.res = "Ok"
                   /\ Changed(pre, fs) = {ArchiveFileOf(last.name)}
                   /\ ArchiveFileOf(last.name) \notin DOMAIN fs)
    /\ []((last.op = "restore" /\ ~Exists(pre, AbsOf(ArchiveFileOf(last.name))))
            => last.res = "NotFound" /\ fs = pre)
    /\ [][(last.op = "archive-remove" /\ last.res = "Ok" /\ last'.op = "restore"
             /\ last'.name = last.name) => last'.res = "NotFound"]_vars
    /\ [][\A q \in ArchiveFiles(fs') \ ArchiveFiles(fs) :
             last'.op = "archive" /\ q = ArchiveFileOf(ArchiveNameOf(last'.name, last'.at))]_vars

\* C15 witness: one of two stored archives was removed and the other is
\* still there.
RemovedOneOfTwoArchives ==
    /\ last.op = "archive-remove"
    /\ last.res = "Ok"
    /\ ArchiveFileOf(last.name) \in ArchiveFiles(pre)
    /\ ArchiveFiles(fs) # {}

\* what an archive command changed lies in ~/.proj/archives
ArchiveTouchedOnlyArchives ==
    \A q \in Changed(pre, fs) : IsPrefix(Tail(ArchivesDir), q) \/ q = Front(Tail(ArchivesDir))

\* C17: an archive during which a file cannot be read or the archive cannot
\* be finished returns an error and has deleted neither the project directory
\* nor its registry entry; whenever an archive command has changed anything
\* outside ~/.proj/archives, the finished archive of the whole tree is there.
ArchiveFailureDeletesNothing ==
    last.op = "archive" =>
        LET real_path == ArchiveSource(pre, last.name)
            file == ArchiveFileOf(ArchiveNameOf(last.name, last.at))
        IN  /\ (Exists(pre, real_path) /\ last.fault = "finish") => last.res = "IoFailure"
            /\ (Exists(pre, real_path) /\ last.fault = "read"
                   /\ ZipEntriesOf(pre, real_path) # <<>>) => last.res = "IoFailure"
            /\ last.res # "Ok" => ArchiveTouchedOnlyArchives
            /\ ~ArchiveTouchedOnlyArchives
                  => /\ file \in DOMAIN fs
                     /\ fs[file].data = <<>>
                     /\ fs[file].zip = ZipEntriesOf(pre, real_path)

\* C17 witness: an archive stopped at a file it could not read, the project
\* and its registry entry as they were.
ArchiveStoppedAtUnreadableFile ==
    /\ last.op = "archive"
    /\ last.fault = "read"
    /\ last.res = "IoFailure"
    /\ LExists(fs, ProjectsDir \o <<last.name>>)
    /\ TreeAt(fs, Stat(pre, ArchiveSource(pre, last.name)).path)
         = TreeAt(pre, Stat(pre, ArchiveSource(pre, last.name)).path)
    /\ ArchiveFileOf(ArchiveNameOf(last.name, last.at)) \in DOMAIN fs

-----------------------------------------------------------------------------
(* Properties of restore and archive over archives that exist, checked       *)
(* under SpecRestore.                                                        *)

ArchiveFilesImmutable ==
    \A a \in ArchiveFiles(pre) :
        \/ a \in DOMAIN fs /\ fs[a] = pre[a]
        \/ last.op = "archive-remove" /\ last.res = "Ok" /\ a = ArchiveFileOf(last.name)

\* C26: restore recreates the project under the directory named by the text
\* of archive_name before its first underscore: for the archive of a project
\* whose name has no underscore that is the name given to archive, for a name
\* with an underscore it is the strictly shorter text before that underscore.
RestoreNamesByFirstUnderscore ==
    \A name \in ArchivedNames, clk \in 0..MaxClock :
        (last.op = "restore" /\ last.res = "Ok" /\ last.name = ArchiveNameOf(name, clk)) =>
            LET base == IF last.dest.some THEN last.dest.path ELSE ProjectsDir
                made == ReadDir(fs, base) \ ReadDir(pre, base)
            IN  \E p \in made :
                  /\ made = {p}
                  /\ IsDir(fs, Append(base, p))
                  /\ IsPrefix(p, name)
                  /\ "_" \notin Range(p)
                  /\ IF "_" \notin Range(name) THEN p = name
                     ELSE Len(p) < Len(name) /\ name[Len(p) + 1] = "_"

\* C26 witness: the archive of my_app was restored to /ext, as /ext/my.
RestoredUnderscoreName ==
    /\ last.op = "restore"
    /\ last.res = "Ok"
    /\ last.name = ArchiveNameOf(nMyApp, 0)
    /\ IsDir(fs, <<RootDir, nExt, <<"my">>>>)
    /\ ~Exists(fs, <<RootDir, nExt, nMyApp>>)

-----------------------------------------------------------------------------
(* Properties of the lifecycle operations, checked under SpecLifecycle. *)

\* C5: migrating a project that resolves to a destination where
\* <destination>/<name> exists fails with Conflict and leaves the source
\* directory, its registry entry and the destination entry as they were.
MigrateConflictLeavesSource ==
    (last.op = "migrate" /\ MigrateSource(pre, last.name).some
       /\ Exists(pre, MigrateDest(last.name, last.dest)))
        => last.res = "Conflict" /\ fs = pre

\* C5 witness: a migrate of an existing project met an occupied destination.
MigrateHitConflict ==
    /\ last.op = "migrate"
    /\ last.res = "Conflict"
    /\ last.dest.some
    /\ MigrateSource(pre, last.name).some
    /\ Tail(MigrateDest(last.name, last.dest)) \in DOMAIN pre

\* C9: after a successful forced remove the project's canonical directory no
\* longer exists, and when that directory was outside ~/projects the registry
\* symlink of the project's name is gone as well.
RemoveDeletesCanonicalDir ==
    (last.op = "remove" /\ last.force /\ last.res = "Ok")
        => LET canonical == Stat(pre, find_project_path(pre, last.name).path).path
           IN  /\ canonical \notin DOMAIN fs
               /\ ~StartsWith(AbsOf(canonical), ProjectsDir)
                    => ~LExists(fs, ProjectsDir \o <<last.name>>)

\* the answer, cut to what is between its outer whitespace and put in lower
\* case, reads "y" or "yes"
SaysYes(input) ==
    \E i \in 1..Len(input), j \in 1..Len(input) :
        /\ i <= j
        /\ \A k \in 1..Len(input) : (k < i \/ k > j) => input[k] \in {" ", "\n", "\t"}
        /\ input[i] \notin {" ", "\n", "\t"} /\ input[j] \notin {" ", "\n", "\t"}
        /\ [k \in 1..(j - i + 1) |-> LowerChar(input[i + k - 1])] \in {<<"y">>, <<"y", "e", "s">>}

\* C10: an unforced remove of a project that resolves, answered with anything
\* but y or yes, returns success and leaves the whole filesystem as it was.
RemoveDeclinedChangesNothing ==
    (last.op = "remove" /\ ~last.force /\ ~SaysYes(last.input)
       /\ find_project_path(pre, last.name).some)
        => last.res = "Ok" /\ fs = pre

\* C10 witness: the prompt of an unforced remove of an existing project was
\* answered with text that is not y or yes.
RemoveWasDeclined ==
    /\ last.op = "remove"
    /\ ~last.force
    /\ last.input = <<"y", "e", "\n">>
    /\ find_project_path(pre, last.name).some
    /\ last.res = "Ok"

\* C11: a migrate with --copy that succeeds leaves the project at the
\* destination and the source directory in place with its content.
MigrateCopyKeepsSource ==
    (last.op = "migrate" /\ last.copy /\ last.res = "Ok")
        => LET source == Stat(pre, MigrateSource(pre, last.name).path).path
           IN  /\ IsDir(fs, MigrateDest(last.name, last.dest))
               /\ source \in DOMAIN fs
               /\ TreeAt(fs, source) = TreeAt(pre, source)

\* the entries of ~/projects all lead to a directory with a manifest file
RegistryEntryResolves(f, name) ==
    LET real_path == Canonicalize(f, ProjectsDir \o <<name>>)
    IN  /\ real_path.ok
        /\ IsDir(f, real_path.path)
        /\ IsFile(f, real_path.path \o ManifestRel)

\* C16: whatever commands have run, every entry of ~/projects resolves to an
\* existing directory that holds a manifest file.
RegistryEntriesResolve ==
    \A name \in ReadDir(fs, ProjectsDir) : RegistryEntryResolves(fs, name)

\* C18: after a successful migrate of a project whose registry entry is a
\* symlink to a directory elsewhere, that symlink is gone and the project
\* tree is at <destination>/<name> and no longer at its old place.
MigrateDropsRegistrySymlink ==
    (last.op = "migrate" /\ last.res = "Ok" /\ find_project_path(pre, last.name).some
       /\ IsSymlink(pre, ProjectsDir \o <<last.name>>))
        => LET source == Stat(pre, ProjectsDir \o <<last.name>>).path
           IN  /\ ~LExists(fs, ProjectsDir \o <<last.name>>)
               /\ source \notin DOMAIN fs
               /\ TreeAt(fs, Tail(MigrateDest(last.name, last.dest))) = TreeAt(pre, source)

\* the last command was a migrate with no destination of a project that the
\* central registry resolves: the registry has an entry of the name and a
\* manifest is found through it
MigratedRegisteredHome ==
    /\ last.op = "migrate" /\ ~last.dest.some
    /\ Tail(ProjectsDir) \o <<last.name>> \in DOMAIN pre
    /\ IsFile(pre, ProjectsDir \o <<last.name>> \o ManifestRel)

\* C30: migrate with no destination of a project that resolves through the
\* central registry always fails with Conflict and changes nothing: the
\* default destination <central-dir>/<name> is the registry entry that
\* resolved the project, so it exists
MigrateHomeAlwaysConflicts ==
    MigratedRegisteredHome => last.res = "Conflict" /\ fs = pre

\* C30 witness: a project outside the central directory, registered by a
\* symlink, was migrated with no destination and stayed where it was
MigrateHomeOfLinkedProject ==
    /\ MigratedRegisteredHome
    /\ IsSymlink(pre, ProjectsDir \o <<last.name>>)
    /\ last.res = "Conflict"
    /\ IsFile(fs, Cwd \o <<last.name>> \o ManifestRel)

-----------------------------------------------------------------------------
(* Properties of discovery, checked under SpecDiscover. *)

ScanRoots == {Cwd, ProjectsDir}

\* the canonical paths of the directories below the scan roots, symlinked
\* directories followed, directories with a leading dot left out
RECURSIVE ReachableDirs(_, _, _)
ReachableDirs(f, frontier, acc) ==
    LET below == {Canonicalize(f, Append(d[1], d[2])).path :
                    d \in {e \in UNION {{<<dir, n>> : n \in ReadDir(f, dir)} : dir \in frontier} :
                             IsDir(f, Append(e[1], e[2])) /\ ~IsHidden(e[2])}}
        new == below \ acc
    IN  IF new = {} THEN acc ELSE ReachableDirs(f, new, acc \cup new)

ManifestBearing(f) ==
    {d \in ReachableDirs(f, ScanRoots, {}) : IsFile(f, d \o ManifestRel)}

\* C2: in a tree without symlink cycles, the walk from the current directory
\* followed by the walk from ~/projects returns every manifest-bearing
\* directory reachable from a scan root, as canonical paths, each exactly once.
DiscoverReturnsEveryProject ==
    out.cmd = "list"
        => /\ Len(out.paths) = Cardinality(ManifestBearing(fs))
           /\ Range(out.paths) = ManifestBearing(fs)

\* C19: scan and list report a directory as a project only if it holds the
\* manifest file .proj/project.json; a directory with a .proj sub-directory
\* and no manifest file in it is not reported.
OnlyManifestDirsAreProjects ==
    /\ out.cmd = "scan" => \A d \in out.names : IsFile(fs, d \o ManifestRel)
    /\ out.cmd = "list" => \A i \in 1..Len(out.paths) : IsFile(fs, out.paths[i] \o ManifestRel)

\* a project directly below the working directory, by its name there, that
\* the registry symlink of name entry leads to as well
LinkedAndDirect(f, name, entry) ==
    LET direct == Canonicalize(f, Cwd \o <<name>>)
        linked == Canonicalize(f, ProjectsDir \o <<entry>>)
    IN  /\ ~IsHidden(name)
        /\ IsSymlink(f, ProjectsDir \o <<entry>>)
        /\ direct.ok /\ linked.ok /\ direct.path = linked.path
        /\ IsFile(f, direct.path \o ManifestRel)

\* C20: a project that the walk of the working directory reaches directly and
\* the walk of ~/projects reaches through a registry symlink is reported
\* exactly once by list (its canonical path) and by scan (one name printed for
\* it), and list returns no path twice.
ReportedExactlyOnce ==
    /\ out.cmd = "list" => Cardinality(Range(out.paths)) = Len(out.paths)
    /\ out.cmd \in {"list", "scan"} =>
          \A name \in ReadDir(fs, Cwd), entry \in ReadDir(fs, ProjectsDir) :
              LinkedAndDirect(fs, name, entry) =>
                  LET reports == IF out.cmd = "list"
                                   THEN {i \in 1..Len(out.paths) :
                                           out.paths[i] = Canonicalize(fs, Cwd \o <<name>>).path}
                                   ELSE {i \in 1..Len(out.paths) : out.paths[i] \in {name, entry}}
                  IN  Cardinality(reports) = 1

\* C20 witness: list ran where ~/projects/b is a symlink to the project /work/a
\* and returned /work/a.
ListedLinkedProject ==
    /\ out.cmd = "list"
    /\ LinkedAndDirect(fs, nA, nB)
    /\ Cwd \o <<nA>> \in Range(out.paths)

\* C21: recursive discovery ends on a tree with a symlink cycle because the
\* seen-set keeps the walk from descending again into a real path it already
\* visited: no call of visit is on a path below an earlier call's path that
\* resolves to the same real directory.
WalkNeverReenters ==
    out.cmd \in {"list", "scan"} =>
        \A i, j \in 1..Len(out.visited) :
            (out.visited[i].path # out.visited[j].path
                /\ IsPrefix(out.visited[i].path, out.visited[j].path))
                    => out.visited[i].real # out.visited[j].real

-----------------------------------------------------------------------------
(* Properties of the manifest store, checked under SpecVars. *)

\* the value the last KEY=VALUE pair for a key gives it
RECURSIVE LastValue(_, _)
LastValue(kvs, key) ==
    IF Last(kvs)[1] = key THEN Last(kvs)[2] ELSE LastValue(Front(kvs), key)

GotAfterSet ==
    /\ out.cmd = "get"
    /\ last.op = "set"
    /\ last.res = "Ok"
    /\ \E i \in 1..Len(last.kvs) : last.kvs[i][1] = out.key

\* C6: `get key` after `set key=value` returns exactly the string value for
\* every key other than completion; after `set completion=0.42` it returns
\* the number 0.42 and not the string "0.42".
SetGetRoundTrip ==
    GotAfterSet =>
        LET value == LastValue(last.kvs, out.key)
        IN  IF out.key # "completion" THEN out.val = [t |-> "str", v |-> value]
            ELSE value = <<"0", ".", "4", "2">>
                    => out.val = [t |-> "num", v |-> <<"0", ".", "4", "2">>]

\* a get of completion after `set completion=0.42 k=a"\`
GotCompletionAfterSet ==
    /\ GotAfterSet
    /\ out.key = "completion"
    /\ last.kvs = <<<<"completion", <<"0", ".", "4", "2">>>>, <<"k", <<"a", Quote, Backslash>>>>>>
    /\ out.val.t = "num"

\* C29: in `list --progress` the bar of every line has exactly 20 cells, for
\* every completion a manifest can hold, values outside 0.0-1.0 set through
\* `set completion=...` included: filled = round(completion * 20) and
\* empty = 20 - filled are both between 0 and 20 and the subtraction does not
\* underflow.
ProgressBarHasTwentyCells ==
    out.cmd = "list" /\ out.args.show_progress =>
        /\ out.res = "Ok"
        /\ \A i \in 1..Len(out.lines) :
              /\ out.lines[i].bar.res = "Ok"
              /\ out.lines[i].bar.filled \in 0..20
              /\ out.lines[i].bar.empty \in 0..20
              /\ out.lines[i].bar.filled + out.lines[i].bar.empty = 20

-----------------------------------------------------------------------------
(* Properties of the status probe, checked under SpecStatus. *)

\* C22: the probe treats every failure as false.  A flag is false when every
\* git command that computes it could not be started or exited with a fatal
\* error (as it does outside a repository), unpushed already when one of its
\* two commands did; a probe in which every command fails gives
\* (false, false, false).
ProbeFailureMeansFalse ==
    out.cmd = "list" =>
        LET Failed(o) == ~o.ran \/ o.code = 128
            probe == out.args.probe
        IN  \A i \in 1..Len(out.lines) :
              /\ Failed(probe.ls_files) => ~out.lines[i].flags.unadded
              /\ Failed(probe.diff) /\ Failed(probe.diff_cached)
                    => ~out.lines[i].flags.uncommitted
              /\ Failed(probe.rev_parse) \/ Failed(probe.log) => ~out.lines[i].flags.unpushed

-----------------------------------------------------------------------------
(* Properties of project creation, checked under SpecCreate. *)

\* `init` ran where the working directory had no .proj entry, with no
\* --template, none selected at the prompt and no KEY=VAL, and the git
\* program it starts ran successfully
InitFresh ==
    /\ last.op = "init"
    /\ ~LExists(pre, Cwd \o <<nDotProj>>)
    /\ ~last.ext.template.some /\ ~last.ext.selected.some
    /\ last.kvs = <<>>
    /\ last.ext.git = "ok"

\* the manifest of the scenario, for the directory named d
ScenarioManifest(d) ==
    ("name" :> StringValue(d)) @@ ("version" :> StringValue(<<"0", ".", "1", ".", "0">>))
        @@ ("description" :> StringValue(<<"New project">>)) @@ ("template" :> NullValue)
        @@ ("status" :> StringValue(<<"active">>)) @@ ("completion" :> NumberValue(<<"0", ".", "0">>))

\* C14: init in a directory named d with no .proj, no template and no KEY=VAL
\* succeeds and leaves the manifest {name: d, version: "0.1.0", description:
\* "New project", template: null, status: "active", completion: 0.0} and an
\* initialized version-control directory
InitLeavesManifestAndRepository ==
    InitFresh =>
        /\ last.res = "Ok"
        /\ read_json(fs, Cwd \o ManifestRel) = ScenarioManifest(Last(Cwd))
        /\ IsDir(fs, Cwd \o <<nDotGit>>)

\* C14 witness: init made the .proj and `git init` the repository
InitMadeManifestAndRepository ==
    /\ InitFresh
    /\ ~LExists(pre, Cwd \o <<nDotGit>>)
    /\ IsFile(fs, Cwd \o ManifestRel)
    /\ IsDir(fs, Cwd \o <<nDotGit>>)

\* the last segment of each source, its .git suffix left off
Basename(source) ==
    CASE source = UrlFoo -> nFoo
      [] source = nDemo -> nDemo
      [] source = <<"ghost">> -> <<"ghost">>

\* the destination the rules give the last clone
RuledDest ==
    LET base == Basename(last.name)
        dest == last.dest
    IN  IF dest = Some(<<CurDir>>) THEN Cwd \o <<base>>
        ELSE IF dest.some /\ Head(dest.path) = RootDir THEN dest.path \o <<base>>
        ELSE IF dest.some THEN ProjectsDir \o dest.path
        ELSE ProjectsDir \o <<base>>

\* C12: clone resolves its destination by the rules in order (`.` or `./`:
\* <cwd>/<basename without .git>; absolute: <dest>/<basename>; relative:
\* <central-dir>/<dest>; none: <central-dir>/<basename>) and fails with Conflict,
\* nothing materialized, when that destination exists: a clone fails with
\* Conflict exactly when the ruled destination was there, changing nothing, and
\* a clone that succeeds makes the project at the ruled destination and changes
\* nothing outside it but its registry entry
CloneResolvesDestination ==
    last.op = "clone" =>
        /\ last.res = "Conflict" <=> Exists(pre, RuledDest)
        /\ last.res = "Conflict" => fs = pre
        /\ last.res = "Ok" =>
              /\ IsDir(fs, RuledDest)
              /\ IsFile(fs, RuledDest \o ManifestRel)
              /\ \A q \in Changed(pre, fs) :
                    \/ IsPrefix(Tail(RuledDest), q)
                    \/ q = Tail(ProjectsDir) \o <<Last(RuledDest)>>

\* C12 witness: a clone to a relative destination made the project in the
\* central directory, not in the working directory
ClonedToRelativeDestination ==
    /\ last.op = "clone" /\ last.res = "Ok"
    /\ last.dest = Some(<<<<"mine">>>>)
    /\ ~Exists(pre, ProjectsDir \o <<<<"mine">>>>)
    /\ IsDir(fs, ProjectsDir \o <<<<"mine">>>>)
    /\ ~Exists(fs, Cwd \o <<<<"mine">>>>)

\* a clone of a remote URL with no destination that succeeded
ClonedUrl == last.op = "clone" /\ last.res = "Ok" /\ last.name = UrlFoo /\ ~last.dest.some

\* C13: clone of a remote URL with no destination creates
\* <registry>/<basename without .git>; where the content brought has no
\* manifest one is synthesized with template the source URL, completion 1.0
\* and status "active"; a manifest the content brings is left as it is
CloneSynthesizesManifest ==
    ClonedUrl =>
        LET dest_path == ProjectsDir \o <<nFoo>>
            tree == last.ext.cloned.tree
            manifest == read_json(fs, dest_path \o ManifestRel)
        IN  /\ ~Exists(pre, dest_path) /\ IsDir(fs, dest_path)
            /\ IsFile(fs, dest_path \o ManifestRel)
            /\ ManifestRel \notin DOMAIN tree =>
                  /\ {"template", "completion", "status"} \subseteq DOMAIN manifest
                  /\ manifest["template"] = StringValue(UrlFoo)
                  /\ manifest["completion"] = NumberValue(<<"1", ".", "0">>)
                  /\ manifest["status"] = StringValue(<<"active">>)
            /\ ManifestRel \in DOMAIN tree =>
                  fs[Tail(dest_path) \o ManifestRel] = tree[ManifestRel]

\* C13 witness: a repository without a manifest was cloned and got one
ClonedUrlWithoutManifest ==
    /\ ClonedUrl
    /\ ManifestRel \notin DOMAIN last.ext.cloned.tree
    /\ IsFile(fs, ProjectsDir \o <<nFoo>> \o ManifestRel)

\* the last command handed a path to link_in_projects_dir: a clone that
\* succeeded outside the central directory, or an init that succeeded
Linked ==
    \/ last.op = "clone" /\ last.res = "Ok" /\ ~StartsWith(RuledDest, ProjectsDir)
    \/ last.op = "init" /\ last.res = "Ok" /\ ~StartsWith(Cwd, ProjectsDir)

\* the path it handed over
LinkedPath == IF last.op = "clone" THEN CloneDest(last.name, last.dest) ELSE Cwd

\* the registry entry of that name, as a real path
LinkedEntry == Tail(ProjectsDir) \o <<Last(LinkedPath)>>

\* C24: after a successful clone whose resolved destination lies outside the
\* central registry (dest `.` included) the registry has an entry named after
\* the destination's final component that resolves to the cloned directory;
\* a clone into the registry creates no symlink
CloneLinksOutsideDestination ==
    (last.op = "clone" /\ last.res = "Ok") =>
        IF StartsWith(RuledDest, ProjectsDir)
          THEN {q \in DOMAIN fs \ DOMAIN pre : fs[q].k = "link"} = {}
          ELSE LET entry == Stat(fs, ProjectsDir \o <<Last(RuledDest)>>)
               IN  /\ entry.ok
                   /\ IsDir(fs, RuledDest)
                   /\ entry.path = Stat(fs, RuledDest).path

\* C28: link never replaces or modifies an existing registry entry: where the
\* central directory has an entry with the name of the path's final component
\* the entry is left as it was, whatever it points to; otherwise a symlink of
\* that name pointing at the path is created; the command that called link
\* succeeded in either case
LinkKeepsExistingEntry ==
    Linked =>
        /\ LinkedEntry \in DOMAIN fs
        /\ IF LinkedEntry \in DOMAIN pre THEN fs[LinkedEntry] = pre[LinkedEntry]
           ELSE fs[LinkedEntry] = LinkNode(LinkedPath)
        /\ \A q \in Changed(pre, fs) :
              Len(q) = Len(ProjectsDir) /\ IsPrefix(Tail(ProjectsDir), q) /\ Front(q) = Tail(ProjectsDir)
                  => q = LinkedEntry /\ q \notin DOMAIN pre

\* C28 witness: a clone went through although the symlink could not be made,
\* the name being taken by a symlink whose target is gone, and that entry is
\* as it was
CloneKeptDanglingEntry ==
    /\ Linked /\ last.op = "clone"
    /\ LinkedEntry \in DOMAIN pre /\ pre[LinkedEntry].k = "link" /\ ~Exists(pre, AbsOf(LinkedEntry))
    /\ fs[LinkedEntry] = pre[LinkedEntry]
    /\ IsDir(fs, RuledDest)

\* a clone that succeeded and brought no manifest: one was synthesized
Synthesized ==
    /\ last.op = "clone" /\ last.res = "Ok"
    /\ last.name = UrlFoo
    /\ ManifestRel \notin DOMAIN last.ext.cloned.tree

\* the version of the priority chain for what the clone brought
ChainVersion ==
    LET tree == last.ext.cloned.tree
        tag == last.ext.cloned.tag
        named(n) == {q \in DOMAIN tree : q # <<>> /\ Last(q) = n}
    IN  IF <<nDotGit>> \in DOMAIN tree /\ tag.ok THEN SubSeq(tag.text, 1, Len(tag.text) - 1)
        ELSE IF named(nInfoPy) # {} THEN <<"1", ".", "5">>
        ELSE IF named(nVersion) # {} THEN <<"2", ".", "0">>
        ELSE <<"0", ".", "0", ".", "1">>

\* C27: the version of the synthesized manifest follows the priority chain:
\* the latest tag where the destination has a .git directory and a tag
\* exists, else the value assigned to __version__ in a file named info.py,
\* else the trimmed content of a file named VERSION, else "0.0.1"; what a
\* higher source yields is not overridden by a lower one
VersionFollowsPriorityChain ==
    Synthesized =>
        read_json(fs, RuledDest \o ManifestRel)["version"] = StringValue(ChainVersion)

=============================================================================
